---------------------------- MODULE Spec2Model ----------------------------
(***************************************************************************)
(* Model of the reactive graph of deft-plus/reactivity: ReactiveNode        *)
(* (_reactive_node.ts), WritableSignalImpl (signal), MemoizedSignalImp      *)
(* (memo), EffectImpl (effect.ts) and untrackedSignal (untracked).          *)
(*                                                                         *)
(* Every public operation runs to completion synchronously, so each one is  *)
(* one action.  The body of an operation is computed by operators that take *)
(* the whole program state as a record s and return the state after the     *)
(* call; s.ret is the returned value and s.exc the exception in flight.     *)
(***************************************************************************)
EXTENDS Integers, Sequences, FiniteSets, TLC

(***************************************************************************)
(* Bounds.                                                                  *)
(***************************************************************************)
MaxValue == 2

MaxWrites == 2

(***************************************************************************)
(* Program constants.                                                       *)
(***************************************************************************)
UNSET == -1

COMPUTING == -2

ERRORED == -3

NOOP_CLEANUP == "noop"

NoNode == "null"

NoExc == "none"

NoError == "null"

Undefined == "undefined"

Tomb == "(empty)"

CycleError == "Cycle detected in computations."

ReentrantError == "Cannot read signals during notification phase."

Values == 0..MaxValue

(***************************************************************************)
(* The nodes of the programs under verification.                            *)
(***************************************************************************)
Cells == {"x", "y", "o"}

Memos == {"mB", "mC", "mD", "mP", "mU", "mO", "mK", "mA", "mZ", "mE", "mS",
          "mG", "mF", "mV"}

Effects == {"eD", "eP", "eX", "eY", "eU", "eO", "eV", "eS", "eC", "eR", "eK", "eT",
            "eN", "eL", "eW", "eM", "eH", "eZ", "eG", "eQ"}

Nodes == Cells \cup Memos \cup Effects

ObjectValued(n) == n = "o"

InitialValue(n) == 0

VARIABLES
  value,            \* cell value / memo cached value or sentinel
  error,            \* memo: cached error
  stale,            \* memo: stale flag
  trackingVersion,  \* ReactiveNode.trackingVersion
  valueVersion,     \* ReactiveNode.valueVersion
  producers,        \* ReactiveNode.producers: keys in insertion order
  consumers,        \* ReactiveNode.consumers: keys in insertion order
  dependency,       \* the Dependency record of a (producer, consumer) pair
  activeConsumer,   \* ReactiveNode.activeConsumer
  notifying,        \* ReactiveNode.notifying
  dirty,            \* EffectImpl.dirty
  cleanupFn,        \* EffectImpl.cleanupFn
  constructed,      \* the EffectImpl objects that exist
  activeEffects,    \* EffectImpl.activeEffects
  executionQueue,   \* EffectImpl.executionQueue, in insertion order
  pendingQueue,     \* EffectImpl.pendingQueue # null
  microtasks,       \* executeQueue jobs waiting in the microtask queue
  seen,             \* effect: the values its callback read in its last run
  notified,         \* effect: notify() calls since its last run
  marked,           \* effects in the order they were marked dirty, not run yet
  readonlySignal,   \* WritableSignalImpl.readonlySignal: a view, or 0
  reclaimed,        \* the nodes whose WeakRef (ReactiveNode.ref) is cleared
  intruded,         \* user code was entered while notifying was set
  cleanupCalls,     \* invocations of the function in cleanupFn; 2: twice
  views,            \* the read-only view objects, in order of creation
  op,               \* the last public operation and its outcome
  trace             \* what the last operation invoked, in order

vars == <<value, error, stale, trackingVersion, valueVersion, producers,
          consumers, dependency, activeConsumer, notifying, dirty, cleanupFn,
          constructed, activeEffects, executionQueue, pendingQueue,
          microtasks, seen, notified, marked, readonlySignal, reclaimed,
          intruded, cleanupCalls, views, op, trace>>

(***************************************************************************)
(* JS Map / Set: keys in insertion order.  A deleted entry stays in place   *)
(* as an empty slot for the iterators that are running, and is dropped when *)
(* the operation is over.                                                   *)
(***************************************************************************)
MapHas(m, k) == \E i \in 1..Len(m) : m[i] = k

MapDelete(m, k) == [i \in 1..Len(m) |-> IF m[i] = k THEN Tomb ELSE m[i]]

MapAdd(m, k) == IF MapHas(m, k) THEN m ELSE Append(m, k)

MapKeys(m) == SelectSeq(m, LAMBDA k : k # Tomb)

MapSize(m) == Len(MapKeys(m))

(***************************************************************************)
(* State record.                                                            *)
(***************************************************************************)
State ==
  [value |-> value, error |-> error, stale |-> stale,
   trackingVersion |-> trackingVersion, valueVersion |-> valueVersion,
   producers |-> producers, consumers |-> consumers,
   dependency |-> dependency, activeConsumer |-> activeConsumer,
   notifying |-> notifying, dirty |-> dirty, cleanupFn |-> cleanupFn,
   constructed |-> constructed, activeEffects |-> activeEffects,
   executionQueue |-> executionQueue, pendingQueue |-> pendingQueue,
   microtasks |-> microtasks, seen |-> seen, notified |-> notified,
   marked |-> marked, readonlySignal |-> readonlySignal, views |-> views,
   reclaimed |-> reclaimed, intruded |-> FALSE,
   cleanupCalls |-> cleanupCalls,
   trace |-> <<>>, ret |-> 0, exc |-> NoExc]

Ret(s, v) == [s EXCEPT !.ret = v]

Throw(s, e) == [s EXCEPT !.exc = e]

Event(e, n, a, b) == [ev |-> e, node |-> n, a |-> a, b |-> b]

\* The entries of the user's code: compute functions, effect callbacks,
\* cleanup functions and change callbacks.
UserCode == {"compute", "callback", "cleanup", "subscribe"}

Emit(s, e, n, a, b) ==
  [s EXCEPT !.trace = Append(@, Event(e, n, a, b)),
            !.intruded = @ \/ (s.notifying /\ e \in UserCode)]

IsCell(n) == n \in Cells

IsMemo(n) == n \in Memos

IsEffect(n) == n \in Effects


(***************************************************************************)
(* The user code of the programs under verification.  Plan(n, vals) is the  *)
(* next statement of the compute function (memo) or callback (effect) of n  *)
(* after it has read the values vals.                                       *)
(***************************************************************************)
DoRead(p) == [do |-> "read", node |-> p, v |-> 0]

DoUntracked(p) == [do |-> "untracked", node |-> p, v |-> 0]

DoReturn(v) == [do |-> "return", node |-> Undefined, v |-> v]

DoThrow(e) == [do |-> "throw", node |-> e, v |-> 0]

\* A write inside a callback: p.set(v).
DoSet(p, v) == [do |-> "set", node |-> p, v |-> v]

\* An effect created inside a callback: effect(callback of e).
DoCreate(e) == [do |-> "effect", node |-> e, v |-> 0]

\* A read through a reference that the program clears when it lets go of
\* the producer p: src?.().
DoReadOptional(p) == [do |-> "optional", node |-> p, v |-> 0]

\* A read that the callback guards: try { p() } catch { v }.
DoTry(p, v) == [do |-> "try", node |-> p, v |-> v]

\* The callback destroys an effect, here its own: ref.destroy().
DoDestroy(e) == [do |-> "destroy", node |-> e, v |-> 0]

\* A read through the read-only view of the cell p: p.readonly()().
DoReadView(p) == [do |-> "view", node |-> p, v |-> 0]

ReadsOf(n) ==
  CASE n = "mB" -> <<DoRead("x")>>
    [] n = "mC" -> <<DoRead("x")>>
    [] n = "mD" -> <<DoRead("mB"), DoRead("mC")>>
    [] n = "mP" -> <<DoRead("mC")>>
    [] n = "mU" -> <<DoRead("x"), DoUntracked("y")>>
    [] n = "mO" -> <<DoRead("o")>>
    [] n = "mZ" -> <<DoRead("mA")>>
    [] n = "mS" -> <<DoRead("x"), DoRead("y")>>
    [] n = "mG" -> <<DoRead("x")>>
    [] n = "eD" -> <<DoRead("mD")>>
    [] n = "eP" -> <<DoRead("mC")>>
    [] n = "eX" -> <<DoRead("x")>>
    [] n = "eY" -> <<DoRead("y")>>
    [] n = "eU" -> <<DoUntracked("y")>>
    [] n = "eO" -> <<DoRead("o")>>
    [] n = "eV" -> <<DoUntracked("mU")>>
    [] n = "eS" -> <<DoRead("mS")>>
    [] n = "eC" -> <<DoRead("x")>>
    [] n = "eR" -> <<DoReadView("x")>>
    [] n = "eN" -> <<DoUntracked("y"), DoRead("mE"), DoRead("x")>>
    [] n = "eM" -> <<DoCreate("eX")>>
    [] n = "eH" -> <<DoReadOptional("mC"), DoRead("y")>>
    [] n = "eZ" -> <<DoRead("y")>>
    [] n = "eG" -> <<DoTry("mE", ERRORED)>>
    [] n = "mF" -> <<DoRead("mE")>>
    [] n = "mV" -> <<DoRead("x")>>
    [] OTHER -> <<>>

ResultOf(n, vals) ==
  CASE n = "mB" -> vals[1] + 1
    [] n = "mC" -> vals[1] % 2
    [] n = "mD" -> 10 * vals[1] + vals[2]
    [] n = "mP" -> vals[1] + 5
    [] n = "mU" -> vals[1] + 10 * vals[2]
    [] n = "mO" -> vals[1]
    [] n = "mZ" -> vals[1] + 1
    [] n = "mS" -> vals[1] * 2 + vals[2]
    [] n = "mG" -> vals[1] * 2
    [] n = "mF" -> vals[1] + 1
    [] n = "mV" -> vals[1]
    [] OTHER -> 0

UserCleanup == "cleanup"

\* What the callback of the effect n returns: eC and eZ return a cleanup
\* function.
CleanupOf(n) == IF n \in {"eC", "eZ"} THEN UserCleanup ELSE Undefined

PlanConditional(vals) ==
  IF Len(vals) = 0 THEN DoRead("x")
  ELSE IF vals[1] # 0 THEN DoReturn(0)
  ELSE IF Len(vals) = 1 THEN DoRead("y")
  ELSE DoReturn(vals[2] + 1)

\* eK reads y only while the cell x is 0.
PlanConditionalEffect(vals) ==
  IF Len(vals) = 0 THEN DoRead("x")
  ELSE IF vals[1] # 0 THEN DoReturn(Undefined)
  ELSE IF Len(vals) = 1 THEN DoRead("y")
  ELSE DoReturn(Undefined)

\* mA reads mZ while the cell x is 0, and mZ reads mA.
PlanCircular(vals) ==
  IF Len(vals) = 0 THEN DoRead("x")
  ELSE IF vals[1] # 0 THEN DoReturn(0)
  ELSE IF Len(vals) = 1 THEN DoRead("mZ")
  ELSE DoReturn(vals[2] + 1)

ZeroError == "Counter is zero"

\* mE throws while the cell x is 0.
PlanThrowing(vals) ==
  IF Len(vals) = 0 THEN DoRead("x")
  ELSE IF vals[1] = 0 THEN DoThrow(ZeroError)
  ELSE DoReturn(vals[1])

EffectError == "Effect failed"

\* The callback of eT throws while the cell x is not 0.
PlanThrowingEffect(vals) ==
  IF Len(vals) = 0 THEN DoRead("x")
  ELSE IF vals[1] # 0 THEN DoThrow(EffectError)
  ELSE DoReturn(Undefined)

\* The closure () => log(v) that a callback which read v returns as cleanup.
CleanupClosures ==
  <<"cleanup of 1", "cleanup of 2", "cleanup of 3", "cleanup of 4">>

CleanupClosure(v) == CleanupClosures[v]

\* The value a cleanup function captured, 0 for the others.
Captured(f) ==
  IF \E v \in 1..Len(CleanupClosures) : CleanupClosures[v] = f
    THEN CHOOSE v \in 1..Len(CleanupClosures) : CleanupClosures[v] = f
    ELSE 0

\* eL returns a cleanup function that captures x, and none while x is 0.
PlanCleanup(vals) ==
  IF Len(vals) = 0 THEN DoRead("x")
  ELSE IF vals[1] = 0 THEN DoReturn(Undefined)
  ELSE DoReturn(CleanupClosure(vals[1]))

\* eW copies the cell x into the cell y.
PlanWriter(vals) ==
  IF Len(vals) = 0 THEN DoRead("x")
  ELSE IF Len(vals) = 1 THEN DoSet("y", vals[1])
  ELSE DoReturn(Undefined)

\* eQ returns a cleanup function that captures x + 1; while x is 1 it first
\* destroys itself, and while x is 2 it throws.
PlanDisposing(vals) ==
  IF Len(vals) = 0 THEN DoRead("x")
  ELSE IF vals[1] = 2 THEN DoThrow(EffectError)
  ELSE IF vals[1] = 1 /\ Len(vals) = 1 THEN DoDestroy("eQ")
  ELSE DoReturn(CleanupClosure(vals[1] + 1))

Plan(n, vals) ==
  IF n = "mK" THEN PlanConditional(vals)
  ELSE IF n = "eK" THEN PlanConditionalEffect(vals)
  ELSE IF n = "eT" THEN PlanThrowingEffect(vals)
  ELSE IF n = "eL" THEN PlanCleanup(vals)
  ELSE IF n = "eW" THEN PlanWriter(vals)
  ELSE IF n = "eQ" THEN PlanDisposing(vals)
  ELSE IF n = "mA" THEN PlanCircular(vals)
  ELSE IF n = "mE" THEN PlanThrowing(vals)
  ELSE IF Len(vals) < Len(ReadsOf(n))
    THEN ReadsOf(n)[Len(vals) + 1]
    ELSE IF n \in Effects THEN DoReturn(CleanupOf(n))
    ELSE DoReturn(ResultOf(n, vals))

defaultEquals(n, a, b) == (~ObjectValued(n)) /\ a = b

\* options.equal: mG is given (a, b) => a >= b, the others the default.
equal(n, a, b) == IF n = "mG" THEN a >= b ELSE defaultEquals(n, a, b)

ComparatorError == "Not comparable"

\* options.equal of mV throws when it is given 2 as the new value:
\* (a, b) => { if (b === 2) throw new Error('Not comparable'); return a === b }
equalThrows(n, a, b) == n = "mV" /\ b = 2

subscribe(s, n, newValue, oldValue) == Emit(s, "subscribe", n, newValue, oldValue)

(***************************************************************************)
(* ReactiveNode                                                             *)
(***************************************************************************)
RECURSIVE notifyConsumers(_, _)
RECURSIVE notifyLoop(_, _, _)
RECURSIVE notifyLoop_NotifiesAll(_, _, _)
RECURSIVE notifyLoop_KeepsStale(_, _, _)
RECURSIVE onDependencyChange(_, _)
RECURSIVE haveDependenciesChanged(_, _)
RECURSIVE dependenciesLoop(_, _, _)
RECURSIVE haveValueChanged(_, _, _)
RECURSIVE onProducerMayChanged(_, _)
RECURSIVE recomputeValue(_, _)
RECURSIVE signal(_, _)
RECURSIVE untrackedSignal(_, _)
RECURSIVE runBody(_, _, _)
RECURSIVE set(_, _, _)
RECURSIVE effect(_, _)
RECURSIVE destroy(_, _)

Log(s, e, vals) ==
  LET a == IF Len(vals) > 0 THEN vals[1] ELSE 0
      b == IF Len(vals) > 1 THEN vals[2] ELSE 0
  IN IF IsEffect(e)
       THEN [Emit(s, "log", e, a, b) EXCEPT !.seen[e] = <<a, b>>]
       ELSE Emit(s, "computed", e, a, b)

setActiveConsumer(s, consumer) == [s EXCEPT !.activeConsumer = consumer]

PutDependency(d, p, c, rec) ==
  [k \in (DOMAIN d) \cup {<<p, c>>} |-> IF k = <<p, c>> THEN rec ELSE d[k]]

recordAccess_NoGuard(s, n) ==
  IF s.activeConsumer = NoNode THEN s
  ELSE
    LET c == s.activeConsumer
        rec == [producerVersion |-> s.valueVersion[n],
                consumerVersion |-> s.trackingVersion[c]]
    IN IF ~MapHas(s.producers[c], n)
         THEN [s EXCEPT !.dependency = PutDependency(@, n, c, rec),
                        !.producers[c] = MapAdd(@, n),
                        !.consumers[n] = MapAdd(@, c)]
         ELSE [s EXCEPT !.dependency = PutDependency(@, n, c, rec)]

recordAccess(s, n) ==
  IF s.notifying THEN Throw(s, ReentrantError)
  ELSE IF s.activeConsumer = NoNode THEN s
  ELSE
    LET c == s.activeConsumer
        rec == [producerVersion |-> s.valueVersion[n],
                consumerVersion |-> s.trackingVersion[c]]
    IN IF ~MapHas(s.producers[c], n)
         THEN [s EXCEPT !.dependency = PutDependency(@, n, c, rec),
                        !.producers[c] = MapAdd(@, n),
                        !.consumers[n] = MapAdd(@, c)]
         ELSE [s EXCEPT !.dependency = PutDependency(@, n, c, rec)]

\* dependency.consumerRef.deref() / dependency.producerRef.deref()
deref_Strong(s, n) == n

deref(s, n) == IF n \in s.reclaimed THEN Undefined ELSE n

PruneDependency_OneSide(s, p, c) ==
  [s EXCEPT !.consumers[p] = MapDelete(@, c)]

PruneDependency(s, p, c) ==
  [s EXCEPT !.producers[c] = MapDelete(@, p),
            !.consumers[p] = MapDelete(@, c)]

(***************************************************************************)
(* EffectImpl.schedule / notify                                             *)
(***************************************************************************)
schedule_Front(s, e) ==
  IF MapHas(s.executionQueue, e) \/ e \notin s.activeEffects THEN s
  ELSE
    LET s1 == [s EXCEPT !.executionQueue = <<e>> \o @]
    IN IF ~s1.pendingQueue
         THEN [s1 EXCEPT !.microtasks = @ + 1, !.pendingQueue = TRUE]
         ELSE s1

schedule_AlwaysArranges(s, e) ==
  IF MapHas(s.executionQueue, e) \/ e \notin s.activeEffects THEN s
  ELSE [s EXCEPT !.executionQueue = Append(@, e),
                 !.microtasks = @ + 1,
                 !.pendingQueue = TRUE]

schedule(s, e) ==
  IF MapHas(s.executionQueue, e) \/ e \notin s.activeEffects THEN s
  ELSE
    LET s1 == [s EXCEPT !.executionQueue = Append(@, e)]
    IN IF ~s1.pendingQueue
         THEN [s1 EXCEPT !.microtasks = @ + 1, !.pendingQueue = TRUE]
         ELSE s1

Without(q, e) == SelectSeq(q, LAMBDA k : k # e)

notify(s, e) ==
  LET s1 == IF ~s.dirty[e] THEN schedule(s, e) ELSE s
  IN [s1 EXCEPT !.dirty[e] = TRUE,
                !.notified[e] = @ + 1,
                !.marked = IF s.dirty[e] THEN @ ELSE Append(Without(@, e), e)]

(***************************************************************************)
(* onDependencyChange: WritableSignalImpl, MemoizedSignalImp, EffectImpl    *)
(***************************************************************************)
onDependencyChangeMemo_NoPropagation(s, m) ==
  IF s.stale[m] THEN s ELSE [s EXCEPT !.stale[m] = TRUE]

onDependencyChangeMemo_Eager(s, m) ==
  IF s.stale[m] THEN s
  ELSE notifyConsumers(recomputeValue([s EXCEPT !.stale[m] = TRUE], m), m)

onDependencyChangeMemo(s, m) ==
  IF s.stale[m] THEN s
  ELSE notifyConsumers([s EXCEPT !.stale[m] = TRUE], m)

onDependencyChange(s, c) ==
  LET s1 == Emit(s, "onDependencyChange", c, 0, 0)
  IN CASE IsMemo(c) -> onDependencyChangeMemo(s1, c)
       [] IsEffect(c) -> notify(s1, c)
       [] OTHER -> s1

notifyLoop_NotifiesAll(s, p, i) ==
  IF i > Len(s.consumers[p]) THEN s
  ELSE IF s.consumers[p][i] = Tomb THEN notifyLoop_NotifiesAll(s, p, i + 1)
  ELSE notifyLoop_NotifiesAll(
         onDependencyChange(s, s.consumers[p][i]), p, i + 1)

notifyLoop_KeepsStale(s, p, i) ==
  IF i > Len(s.consumers[p]) THEN s
  ELSE
    LET c == s.consumers[p][i]
    IN IF c = Tomb THEN notifyLoop_KeepsStale(s, p, i + 1)
       ELSE IF s.trackingVersion[c] # s.dependency[<<p, c>>].consumerVersion
         THEN notifyLoop_KeepsStale(s, p, i + 1)
         ELSE notifyLoop_KeepsStale(onDependencyChange(s, c), p, i + 1)

notifyLoop(s, p, i) ==
  IF i > Len(s.consumers[p]) THEN s
  ELSE
    LET c == s.consumers[p][i]
    IN IF c = Tomb THEN notifyLoop(s, p, i + 1)
       ELSE IF deref(s, c) = Undefined
         THEN notifyLoop([s EXCEPT !.consumers[p] = MapDelete(@, c)], p, i + 1)
       ELSE IF s.trackingVersion[c] # s.dependency[<<p, c>>].consumerVersion
         THEN notifyLoop(PruneDependency(s, p, c), p, i + 1)
         ELSE notifyLoop(onDependencyChange(s, c), p, i + 1)

notifyConsumers_NoRestore(s, p) ==
  notifyLoop([s EXCEPT !.notifying = TRUE], p, 1)

notifyConsumers(s, p) ==
  LET wasNotifying == s.notifying
      s1 == notifyLoop([s EXCEPT !.notifying = TRUE], p, 1)
  IN [s1 EXCEPT !.notifying = wasNotifying]

(***************************************************************************)
(* haveDependenciesChanged / haveValueChanged                               *)
(***************************************************************************)
haveValueChanged_VersionOnly(s, p, lastSeenVersion) ==
  Ret(s, s.valueVersion[p] # lastSeenVersion)

haveValueChanged(s, p, lastSeenVersion) ==
  IF s.valueVersion[p] # lastSeenVersion THEN Ret(s, TRUE)
  ELSE
    LET Polled(s1) ==
          IF s1.exc # NoExc THEN s1
          ELSE Ret(s1, s1.valueVersion[p] # lastSeenVersion)
    IN Polled(onProducerMayChanged(s, p))

dependenciesLoop(s, n, i) ==
  IF i > Len(s.producers[n]) THEN Ret(s, FALSE)
  ELSE
    LET p == s.producers[n][i]
    IN IF p = Tomb THEN dependenciesLoop(s, n, i + 1)
       ELSE IF deref(s, p) = Undefined
         THEN dependenciesLoop([s EXCEPT !.producers[n] = MapDelete(@, p)],
                               n, i + 1)
       ELSE IF s.dependency[<<p, n>>].consumerVersion # s.trackingVersion[n]
         THEN dependenciesLoop(PruneDependency(s, p, n), n, i + 1)
         ELSE
           LET Compared(s1) ==
                 IF s1.exc # NoExc THEN s1
                 ELSE IF s1.ret THEN s1
                 ELSE dependenciesLoop(s1, n, i + 1)
           IN Compared(haveValueChanged(
                         s, p, s.dependency[<<p, n>>].producerVersion))

haveDependenciesChanged(s, n) == dependenciesLoop(s, n, 1)

(***************************************************************************)
(* MemoizedSignalImp                                                        *)
(***************************************************************************)
onProducerMayChanged_Eager(s, n) ==
  IF ~IsMemo(n) THEN s ELSE recomputeValue(s, n)

onProducerMayChanged(s, n) ==
  IF ~IsMemo(n) THEN s
  ELSE IF ~s.stale[n] THEN s
  ELSE IF s.value[n] # UNSET /\ s.value[n] # COMPUTING
    THEN
      LET Polled(s1) ==
            IF s1.exc # NoExc THEN s1
            ELSE IF ~s1.ret THEN [s1 EXCEPT !.stale[n] = FALSE]
            ELSE recomputeValue(s1, n)
      IN Polled(haveDependenciesChanged(s, n))
    ELSE recomputeValue(s, n)

recomputeValue_AlwaysCommits(s, m) ==
  IF s.value[m] = COMPUTING THEN Throw(s, CycleError)
  ELSE
    LET previousConsumer == s.activeConsumer
        s1 == setActiveConsumer(
                [s EXCEPT !.value[m] = COMPUTING, !.trackingVersion[m] = @ + 1], m)
        Computed(s2) ==
          LET newValue == IF s2.exc # NoExc THEN ERRORED ELSE s2.ret
              s3 == [setActiveConsumer(s2, previousConsumer) EXCEPT
                       !.error[m] = IF s2.exc # NoExc THEN s2.exc ELSE @,
                       !.exc = NoExc,
                       !.stale[m] = FALSE]
              oldValue == s3.value[m]
              s4 == [s3 EXCEPT !.value[m] = newValue, !.valueVersion[m] = @ + 1]
          IN subscribe(s4, m, s4.value[m], oldValue)
    IN Computed(runBody(Emit(s1, "compute", m, 0, 0), m, <<>>))

recomputeValue_KeepsNew(s, m) ==
  IF s.value[m] = COMPUTING THEN Throw(s, CycleError)
  ELSE
    LET previousValue == s.value[m]
        previousConsumer == s.activeConsumer
        s1 == setActiveConsumer(
                [s EXCEPT !.value[m] = COMPUTING, !.trackingVersion[m] = @ + 1], m)
        Computed(s2) ==
          LET newValue == IF s2.exc # NoExc THEN ERRORED ELSE s2.ret
              s3 == [setActiveConsumer(s2, previousConsumer) EXCEPT
                       !.error[m] = IF s2.exc # NoExc THEN s2.exc ELSE @,
                       !.exc = NoExc,
                       !.stale[m] = FALSE]
          IN IF /\ previousValue # UNSET
                /\ previousValue # ERRORED
                /\ newValue # ERRORED
                /\ equal(m, previousValue, newValue)
               THEN [s3 EXCEPT !.value[m] = newValue]
               ELSE
                 LET oldValue == s3.value[m]
                     s4 == [s3 EXCEPT !.value[m] = newValue,
                                      !.valueVersion[m] = @ + 1]
                 IN subscribe(s4, m, s4.value[m], oldValue)
    IN Computed(runBody(Emit(s1, "compute", m, 0, 0), m, <<>>))

recomputeValue_ErrorKeepsVersion(s, m) ==
  IF s.value[m] = COMPUTING THEN Throw(s, CycleError)
  ELSE
    LET previousValue == s.value[m]
        previousConsumer == s.activeConsumer
        s1 == setActiveConsumer(
                [s EXCEPT !.value[m] = COMPUTING, !.trackingVersion[m] = @ + 1], m)
        Computed(s2) ==
          LET newValue == IF s2.exc # NoExc THEN ERRORED ELSE s2.ret
              s3 == [setActiveConsumer(s2, previousConsumer) EXCEPT
                       !.error[m] = IF s2.exc # NoExc THEN s2.exc ELSE @,
                       !.exc = NoExc,
                       !.stale[m] = FALSE]
          IN IF /\ previousValue # UNSET
                /\ previousValue # ERRORED
                /\ newValue # ERRORED
                /\ equal(m, previousValue, newValue)
               THEN [s3 EXCEPT !.value[m] = previousValue]
               ELSE
                 LET oldValue == s3.value[m]
                     s4 == [s3 EXCEPT
                              !.value[m] = newValue,
                              !.valueVersion[m] =
                                IF previousValue = ERRORED \/ newValue = ERRORED
                                  THEN @ ELSE @ + 1]
                 IN subscribe(s4, m, s4.value[m], oldValue)
    IN Computed(runBody(Emit(s1, "compute", m, 0, 0), m, <<>>))

recomputeValue(s, m) ==
  IF s.value[m] = COMPUTING THEN Throw(s, CycleError)
  ELSE
    LET previousValue == s.value[m]
        previousConsumer == s.activeConsumer
        s1 == setActiveConsumer(
                [s EXCEPT !.value[m] = COMPUTING, !.trackingVersion[m] = @ + 1], m)
        Computed(s2) ==
          LET newValue == IF s2.exc # NoExc THEN ERRORED ELSE s2.ret
              s3 == [setActiveConsumer(s2, previousConsumer) EXCEPT
                       !.error[m] = IF s2.exc # NoExc THEN s2.exc ELSE @,
                       !.exc = NoExc,
                       !.stale[m] = FALSE]
          IN IF /\ previousValue # UNSET
                /\ previousValue # ERRORED
                /\ newValue # ERRORED
                /\ equalThrows(m, previousValue, newValue)
               THEN Throw(s3, ComparatorError)
             ELSE IF /\ previousValue # UNSET
                     /\ previousValue # ERRORED
                     /\ newValue # ERRORED
                     /\ equal(m, previousValue, newValue)
               THEN [s3 EXCEPT !.value[m] = previousValue]
               ELSE
                 LET oldValue == s3.value[m]
                     s4 == [s3 EXCEPT !.value[m] = newValue,
                                      !.valueVersion[m] = @ + 1]
                 IN subscribe(s4, m, s4.value[m], oldValue)
    IN Computed(runBody(Emit(s1, "compute", m, 0, 0), m, <<>>))

signalMemo_Recomputes(s, m) ==
  LET Recorded(s2) ==
        IF s2.exc # NoExc THEN s2
        ELSE IF s2.value[m] = ERRORED THEN Throw(s2, s2.error[m])
        ELSE Ret(s2, s2.value[m])
      Polled(s1) == IF s1.exc # NoExc THEN s1 ELSE Recorded(recordAccess(s1, m))
  IN Polled(recomputeValue(s, m))

signalMemo(s, m) ==
  LET Recorded(s2) ==
        IF s2.exc # NoExc THEN s2
        ELSE IF s2.value[m] = ERRORED THEN Throw(s2, s2.error[m])
        ELSE Ret(s2, s2.value[m])
      Polled(s1) == IF s1.exc # NoExc THEN s1 ELSE Recorded(recordAccess(s1, m))
  IN Polled(onProducerMayChanged(s, m))

(***************************************************************************)
(* WritableSignalImpl                                                       *)
(***************************************************************************)
signalWritable(s, c) ==
  LET Recorded(s1) == IF s1.exc # NoExc THEN s1 ELSE Ret(s1, s1.value[c])
  IN Recorded(recordAccess(s, c))

signal(s, n) == IF IsMemo(n) THEN signalMemo(s, n) ELSE signalWritable(s, n)

untrackedSignal_Tracks(s, n) == signal(s, n)

untrackedSignal(s, n) ==
  LET previousConsumer == s.activeConsumer
      s1 == signal(setActiveConsumer(s, NoNode), n)
  IN setActiveConsumer(s1, previousConsumer)

(***************************************************************************)
(* readonly(): the view is a function object marked as a signal; fn is the  *)
(* cell whose signal() it calls and api the keys copied onto it.            *)
(***************************************************************************)
markAsSignal(type, fn, extraApi) == [type |-> type, fn |-> fn, api |-> extraApi]

readonly(s, c) ==
  IF s.readonlySignal[c] = 0
    THEN Ret([s EXCEPT
                !.views = Append(@, markAsSignal("readonly", c, {"untracked"})),
                !.readonlySignal[c] = Len(s.views) + 1],
             Len(s.views) + 1)
    ELSE Ret(s, s.readonlySignal[c])

readonlyCall_Untracked(s, k) == untrackedSignal(s, s.views[k].fn)

\* Calling the view k: () => this.signal()
readonlyCall(s, k) == signal(s, s.views[k].fn)

runBody(s, n, vals) ==
  LET Got(s1) ==
        IF s1.exc # NoExc THEN s1 ELSE runBody(s1, n, Append(vals, s1.ret))
      Viewed(s1) == readonlyCall(s1, s1.ret)
      Caught(s1, v) ==
        IF s1.exc # NoExc THEN [s1 EXCEPT !.exc = NoExc, !.ret = v] ELSE s1
      Do(st) ==
        CASE st.do = "return" -> Ret(Log(s, n, vals), st.v)
          [] st.do = "view" -> Got(Viewed(readonly(s, st.node)))
          [] st.do = "read" -> Got(signal(s, st.node))
          [] st.do = "try" -> Got(Caught(signal(s, st.node), st.v))
          [] st.do = "optional" ->
               IF st.node \in s.reclaimed THEN Got(Ret(s, Undefined))
               ELSE Got(signal(s, st.node))
          [] st.do = "untracked" -> Got(untrackedSignal(s, st.node))
          [] st.do = "throw" -> Throw(s, st.node)
          [] st.do = "set" -> Got(set(s, st.node, st.v))
          [] st.do = "effect" -> Got(effect(s, st.node))
          [] st.do = "destroy" -> Got(destroy(s, st.node))
  IN Do(Plan(n, vals))

set_NoEqualityCheck(s, c, newValue) ==
  LET oldValue == s.value[c]
      s1 == [s EXCEPT !.value[c] = newValue, !.valueVersion[c] = @ + 1]
      Notified(s2) == subscribe(s2, c, s2.value[c], oldValue)
  IN Notified(notifyConsumers(s1, c))

set_SubscribeFirst(s, c, newValue) ==
  IF ~equal(c, s.value[c], newValue)
    THEN
      LET oldValue == s.value[c]
          s1 == [s EXCEPT !.value[c] = newValue, !.valueVersion[c] = @ + 1]
          s2 == subscribe(s1, c, s1.value[c], oldValue)
      IN notifyConsumers(s2, c)
    ELSE s

set(s, c, newValue) ==
  IF ~equal(c, s.value[c], newValue)
    THEN
      LET oldValue == s.value[c]
          s1 == [s EXCEPT !.value[c] = newValue, !.valueVersion[c] = @ + 1]
          Notified(s2) == subscribe(s2, c, s2.value[c], oldValue)
      IN Notified(notifyConsumers(s1, c))
    ELSE s

Updaters == {"increment", "keep"}

ApplyUpdater(f, v) == IF f = "increment" THEN (v + 1) % (MaxValue + 1) ELSE v

update(s, c, updater) == set(s, c, ApplyUpdater(updater, s.value[c]))

Mutators == {"touch", "push"}

ApplyMutator(c, f, v) ==
  IF ObjectValued(c) /\ f = "push" THEN (v + 1) % (MaxValue + 1) ELSE v

mutate_ChecksEquality(s, c, mutator) ==
  set(s, c, ApplyMutator(c, mutator, s.value[c]))

mutate(s, c, mutator) ==
  LET s1 == [s EXCEPT !.value[c] = ApplyMutator(c, mutator, @),
                      !.valueVersion[c] = @ + 1]
      Notified(s2) == subscribe(s2, c, s2.value[c], s2.value[c])
  IN Notified(notifyConsumers(s1, c))

(***************************************************************************)
(* EffectImpl                                                               *)
(***************************************************************************)
RECURSIVE executeLoop(_, _)
RECURSIVE executeLoop_CatchesErrors(_, _)
RECURSIVE executeLoop_OncePerDrain(_, _)

\* cleanupCalls[e] counts the invocations of the function that cleanupFn[e]
\* holds, and stays at 2 once a function returned by the callback has been
\* invoked a second time.
cleanup(s, e) ==
  [Emit(s, "cleanup", e, IF s.cleanupFn[e] = NOOP_CLEANUP THEN 0 ELSE 1,
        Captured(s.cleanupFn[e]))
     EXCEPT !.cleanupCalls[e] =
              IF s.cleanupFn[e] = NOOP_CLEANUP THEN @
              ELSE IF @ = 0 THEN 1 ELSE 2]

run_KeepsDirty(s, e) ==
  LET s0 == [Emit(s, "run", e, s.notified[e], 0) EXCEPT
               !.notified[e] = 0,
               !.marked = Without(@, e)]
      Called(s4, previousConsumer) ==
        setActiveConsumer(
          IF s4.exc # NoExc THEN s4
          ELSE [s4 EXCEPT !.cleanupFn[e] =
                  IF s4.ret = Undefined THEN NOOP_CLEANUP ELSE s4.ret],
          previousConsumer)
      Cleaned(s3, previousConsumer) ==
        Called(IF s3.exc # NoExc THEN s3
               ELSE runBody(Emit(s3, "callback", e, 0, 0), e, <<>>),
               previousConsumer)
      Polled(s1) ==
        IF s1.exc # NoExc THEN s1
        ELSE IF ~s1.ret THEN s1
        ELSE Cleaned(cleanup([setActiveConsumer(s1, e) EXCEPT
                                !.trackingVersion[e] = @ + 1], e),
                     s1.activeConsumer)
  IN Polled(IF s0.trackingVersion[e] # 0
              THEN haveDependenciesChanged(s0, e)
              ELSE Ret(s0, TRUE))

run_NoFinally(s, e) ==
  LET s0 == [Emit(s, "run", e, s.notified[e], 0) EXCEPT
               !.dirty[e] = FALSE,
               !.notified[e] = 0,
               !.marked = Without(@, e)]
      Called(s4, previousConsumer) ==
        IF s4.exc # NoExc THEN s4
        ELSE setActiveConsumer(
               [s4 EXCEPT !.cleanupFn[e] =
                  IF s4.ret = Undefined THEN NOOP_CLEANUP ELSE s4.ret],
               previousConsumer)
      Cleaned(s3, previousConsumer) ==
        Called(IF s3.exc # NoExc THEN s3
               ELSE runBody(Emit(s3, "callback", e, 0, 0), e, <<>>),
               previousConsumer)
      Polled(s1) ==
        IF s1.exc # NoExc THEN s1
        ELSE IF ~s1.ret THEN s1
        ELSE Cleaned(cleanup([setActiveConsumer(s1, e) EXCEPT
                                !.trackingVersion[e] = @ + 1], e),
                     s1.activeConsumer)
  IN Polled(IF s0.trackingVersion[e] # 0
              THEN haveDependenciesChanged(s0, e)
              ELSE Ret(s0, TRUE))

run_KeepsCleanup(s, e) ==
  LET s0 == [Emit(s, "run", e, s.notified[e], 0) EXCEPT
               !.dirty[e] = FALSE,
               !.notified[e] = 0,
               !.marked = Without(@, e)]
      Called(s4, previousConsumer) ==
        setActiveConsumer(
          IF s4.exc # NoExc THEN s4
          ELSE [s4 EXCEPT !.cleanupFn[e] =
                  IF s4.ret = Undefined THEN @ ELSE s4.ret],
          previousConsumer)
      Cleaned(s3, previousConsumer) ==
        Called(IF s3.exc # NoExc THEN s3
               ELSE runBody(Emit(s3, "callback", e, 0, 0), e, <<>>),
               previousConsumer)
      Polled(s1) ==
        IF s1.exc # NoExc THEN s1
        ELSE IF ~s1.ret THEN s1
        ELSE Cleaned(cleanup([setActiveConsumer(s1, e) EXCEPT
                                !.trackingVersion[e] = @ + 1], e),
                     s1.activeConsumer)
  IN Polled(IF s0.trackingVersion[e] # 0
              THEN haveDependenciesChanged(s0, e)
              ELSE Ret(s0, TRUE))

run(s, e) ==
  LET s0 == [Emit(s, "run", e, s.notified[e], 0) EXCEPT
               !.dirty[e] = FALSE,
               !.notified[e] = 0,
               !.marked = Without(@, e)]
      Called(s4, previousConsumer) ==
        setActiveConsumer(
          IF s4.exc # NoExc THEN s4
          ELSE [s4 EXCEPT !.cleanupFn[e] =
                  IF s4.ret = Undefined THEN NOOP_CLEANUP ELSE s4.ret,
                          !.cleanupCalls[e] = IF @ = 2 THEN 2 ELSE 0],
          previousConsumer)
      Cleaned(s3, previousConsumer) ==
        Called(IF s3.exc # NoExc THEN s3
               ELSE runBody(Emit(s3, "callback", e, 0, 0), e, <<>>),
               previousConsumer)
      Polled(s1) ==
        IF s1.exc # NoExc THEN s1
        ELSE IF ~s1.ret THEN s1
        ELSE Cleaned(cleanup([setActiveConsumer(s1, e) EXCEPT
                                !.trackingVersion[e] = @ + 1], e),
                     s1.activeConsumer)
  IN Polled(IF s0.trackingVersion[e] # 0
              THEN haveDependenciesChanged(s0, e)
              ELSE Ret(s0, TRUE))

executeLoop_CatchesErrors(s, i) ==
  IF i > Len(s.executionQueue) THEN s
  ELSE IF s.executionQueue[i] = Tomb THEN executeLoop_CatchesErrors(s, i + 1)
  ELSE
    LET Ran(s1) == executeLoop_CatchesErrors([s1 EXCEPT !.exc = NoExc], i + 1)
    IN Ran(run([s EXCEPT !.executionQueue = MapDelete(@, s.executionQueue[i])],
               s.executionQueue[i]))

executeLoop_OncePerDrain(s, i) ==
  IF i > Len(s.executionQueue) THEN s
  ELSE IF s.executionQueue[i] = Tomb THEN executeLoop_OncePerDrain(s, i + 1)
  ELSE IF Len(SelectSeq(s.trace, LAMBDA x : x.ev = "run"
                                   /\ x.node = s.executionQueue[i])) > 0
    THEN executeLoop_OncePerDrain(s, i + 1)
  ELSE
    LET Ran(s1) ==
          IF s1.exc # NoExc THEN s1 ELSE executeLoop_OncePerDrain(s1, i + 1)
    IN Ran(run([s EXCEPT !.executionQueue = MapDelete(@, s.executionQueue[i])],
               s.executionQueue[i]))

executeLoop(s, i) ==
  IF i > Len(s.executionQueue) THEN s
  ELSE
    LET watch == s.executionQueue[i]
    IN IF watch = Tomb THEN executeLoop(s, i + 1)
       ELSE
         LET Ran(s1) == IF s1.exc # NoExc THEN s1 ELSE executeLoop(s1, i + 1)
         IN Ran(run([s EXCEPT !.executionQueue = MapDelete(@, watch)], watch))

executeQueue(s) ==
  LET Drained(s1) ==
        IF s1.exc # NoExc THEN s1 ELSE [s1 EXCEPT !.pendingQueue = FALSE]
  IN Drained(executeLoop(s, 1))

effect_RunsNow(s, e) ==
  run([s EXCEPT !.constructed = @ \cup {e},
                !.activeEffects = @ \cup {e}], e)

effect(s, e) ==
  notify([s EXCEPT !.constructed = @ \cup {e},
                   !.activeEffects = @ \cup {e}], e)

\* effect.initial: callback(); return effect(callback);
initial(s, e) ==
  LET Called(s1) == IF s1.exc # NoExc THEN s1 ELSE effect(s1, e)
  IN Called(runBody(Emit(s, "callback", e, 0, 0), e, <<>>))

destroy_KeepsQueued(s, e) ==
  LET Cleaned(s1) ==
        IF s1.exc # NoExc THEN s1
        ELSE [s1 EXCEPT !.activeEffects = @ \ {e}]
  IN Cleaned(cleanup(s, e))

destroy(s, e) ==
  LET Cleaned(s1) ==
        IF s1.exc # NoExc THEN s1
        ELSE [s1 EXCEPT !.activeEffects = @ \ {e},
                        !.executionQueue = MapDelete(@, e),
                        !.marked = Without(@, e)]
  IN Cleaned(cleanup(s, e))

resetEffects_KeepsQueue(s) ==
  [s EXCEPT !.activeEffects = {}]

resetEffects(s) ==
  [s EXCEPT !.executionQueue = [i \in 1..Len(@) |-> Tomb],
            !.activeEffects = {},
            !.marked = <<>>]


(***************************************************************************)
(* End of an operation: no iterator is running any more, so the empty       *)
(* slots of the maps are dropped, and so are the Dependency records that no *)
(* map holds.                                                               *)
(***************************************************************************)
Held(s) ==
  {k \in DOMAIN s.dependency :
     MapHas(s.producers[k[2]], k[1]) \/ MapHas(s.consumers[k[1]], k[2])}

Settle(s) ==
  [s EXCEPT !.producers = [n \in Nodes |-> MapKeys(s.producers[n])],
            !.consumers = [n \in Nodes |-> MapKeys(s.consumers[n])],
            !.executionQueue = MapKeys(@),
            !.dependency = [k \in Held(s) |-> s.dependency[k]]]

Install(s, o) ==
     /\ value' = s.value
     /\ error' = s.error
     /\ stale' = s.stale
     /\ trackingVersion' = s.trackingVersion
     /\ valueVersion' = s.valueVersion
     /\ producers' = s.producers
     /\ consumers' = s.consumers
     /\ dependency' = s.dependency
     /\ activeConsumer' = s.activeConsumer
     /\ notifying' = s.notifying
     /\ dirty' = s.dirty
     /\ cleanupFn' = s.cleanupFn
     /\ constructed' = s.constructed
     /\ activeEffects' = s.activeEffects
     /\ executionQueue' = s.executionQueue
     /\ pendingQueue' = s.pendingQueue
     /\ microtasks' = s.microtasks
     /\ seen' = s.seen
     /\ notified' = s.notified
     /\ marked' = s.marked
     /\ readonlySignal' = s.readonlySignal
     /\ reclaimed' = s.reclaimed
     /\ intruded' = s.intruded
     /\ cleanupCalls' = s.cleanupCalls
     /\ views' = s.views
     /\ trace' = s.trace
     /\ op' = [kind |-> o[1], node |-> o[2], arg |-> o[3], fn |-> o[4],
               ret |-> IF s.exc = NoExc /\ o[1] \in {"read", "untracked",
                                                     "readonly", "view"}
                         THEN s.ret ELSE 0,
               exc |-> s.exc]

Commit(s, o) == Install(Settle(s), o)

NeverSeen == <<-9, -9>>

Init ==
  /\ value = [n \in Cells \cup Memos |->
                IF n \in Cells THEN InitialValue(n) ELSE UNSET]
  /\ error = [n \in Memos |-> NoError]
  /\ stale = [n \in Memos |-> TRUE]
  /\ trackingVersion = [n \in Nodes |-> 0]
  /\ valueVersion = [n \in Nodes |-> 0]
  /\ producers = [n \in Nodes |-> <<>>]
  /\ consumers = [n \in Nodes |-> <<>>]
  /\ dependency = [k \in {} |-> 0]
  /\ activeConsumer = NoNode
  /\ notifying = FALSE
  /\ dirty = [n \in Effects |-> FALSE]
  /\ cleanupFn = [n \in Effects |-> NOOP_CLEANUP]
  /\ constructed = {}
  /\ activeEffects = {}
  /\ executionQueue = <<>>
  /\ pendingQueue = FALSE
  /\ microtasks = 0
  /\ seen = [n \in Effects |-> NeverSeen]
  /\ notified = [n \in Effects |-> 0]
  /\ marked = <<>>
  /\ readonlySignal = [c \in Cells |-> 0]
  /\ reclaimed = {}
  /\ intruded = FALSE
  /\ cleanupCalls = [n \in Effects |-> 0]
  /\ views = <<>>
  /\ op = [kind |-> "init", node |-> NoNode, arg |-> 0, fn |-> "",
           ret |-> 0, exc |-> NoExc]
  /\ trace = <<>>

(***************************************************************************)
(* The public operations.                                                   *)
(***************************************************************************)
Writes == valueVersion["x"] + valueVersion["y"] + valueVersion["o"]

Set(c, v) ==
  /\ Writes < MaxWrites
  /\ Commit(set(State, c, v), <<"set", c, v, "">>)

Update(c, f) ==
  /\ Writes < MaxWrites
  /\ Commit(update(State, c, f), <<"update", c, 0, f>>)

Mutate(c, f) ==
  /\ Writes < MaxWrites
  /\ Commit(mutate(State, c, f), <<"mutate", c, 0, f>>)

Read(n) == Commit(signal(State, n), <<"read", n, 0, "">>)

ReadUntracked(n) == Commit(untrackedSignal(State, n), <<"untracked", n, 0, "">>)

CreateEffect(e) ==
  /\ e \notin constructed
  /\ Commit(effect(State, e), <<"effect", e, 0, "">>)

CreateInitial(e) ==
  /\ e \notin constructed
  /\ Commit(initial(State, e), <<"initial", e, 0, "">>)

Destroy(e) ==
  /\ e \in constructed
  /\ Commit(destroy(State, e), <<"destroy", e, 0, "">>)

Readonly(c) == Commit(readonly(State, c), <<"readonly", c, 0, "">>)

ReadView(k) ==
  /\ k \in 1..Len(views)
  /\ Commit(readonlyCall(State, k), <<"view", views[k].fn, k, "">>)

ResetEffects == Commit(resetEffects(State), <<"resetEffects", NoNode, 0, "">>)

\* A read of the producer n by code that runs while notifyConsumers is
\* propagating (notifying is set) under the active consumer c; notifying and
\* the active consumer are restored by the finally blocks around the caller.
ReentrantRead(c, n) ==
  /\ c # NoNode => c \in activeEffects /\ trackingVersion[c] > 0
  /\ LET Restored(s1) ==
           [s1 EXCEPT !.notifying = FALSE, !.activeConsumer = NoNode]
     IN Commit(Restored(signal([State EXCEPT !.notifying = TRUE,
                                              !.activeConsumer = c], n)),
               <<"reentrant", n, 0, c>>)

\* The program lets go of its last reference to the node n and the garbage
\* collector reclaims it.  The static sets activeEffects and executionQueue
\* hold their effects strongly; a Dependency holds its two ends through
\* WeakRefs only, so the edges of n do not keep it.
Reclaim(n) ==
  /\ n \in Memos \cup constructed
  /\ n \notin reclaimed
  /\ n \notin activeEffects
  /\ ~MapHas(executionQueue, n)
  /\ Commit([State EXCEPT !.reclaimed = @ \cup {n}], <<"reclaim", n, 0, "">>)

Flush ==
  /\ microtasks > 0
  /\ Commit(executeQueue([State EXCEPT !.microtasks = @ - 1]),
            <<"flush", NoNode, 0, "">>)

(***************************************************************************)
(* Diamond: x read by mB and mC, mD reads both, eD reads mD.                *)
(***************************************************************************)
NextDiamond ==
  \/ \E v \in Values : Set("x", v)
  \/ \E m \in {"mB", "mD"} : Read(m)
  \/ CreateEffect("eD")
  \/ Flush

SpecDiamond == Init /\ [][NextDiamond]_vars

(***************************************************************************)
(* Memos over two cells, read from outside any consumer.                    *)
(***************************************************************************)
NextMemo ==
  \/ \E v \in Values : Set("x", v)
  \/ \E f \in Updaters : Update("x", f)
  \/ \E f \in Mutators : Mutate("x", f)
  \/ \E v \in Values : Set("y", v)
  \/ \E m \in {"mP", "mK"} : Read(m)
  \/ \E m \in {"mP", "mK"} : ReadUntracked(m)

SpecMemo == Init /\ [][NextMemo]_vars

(***************************************************************************)
(* Two effects over two cells.                                              *)
(***************************************************************************)
NextEffects ==
  \/ \E v \in Values : Set("x", v)
  \/ \E v \in Values : Set("y", v)
  \/ \E e \in {"eX", "eY"} : CreateEffect(e)
  \/ Flush

SpecEffects == Init /\ [][NextEffects]_vars

(***************************************************************************)
(* Parity: mC = x % 2, read by the memo mP and by the effect eP.            *)
(***************************************************************************)
NextParity ==
  \/ \E v \in Values : Set("x", v)
  \/ \E m \in {"mC", "mP"} : Read(m)
  \/ CreateEffect("eP")
  \/ Flush

SpecParity == Init /\ [][NextParity]_vars

(***************************************************************************)
(* Writes to cells that have memo and effect consumers.                     *)
(***************************************************************************)
NextWrite ==
  \/ \E v \in Values : Set("x", v)
  \/ \E f \in Updaters : Update("x", f)
  \/ \E v \in Values : Set("y", v)
  \/ \E m \in {"mK"} : Read(m)
  \/ \E e \in {"eX"} : CreateEffect(e)
  \/ Flush

SpecWrite == Init /\ [][NextWrite]_vars

(***************************************************************************)
(* In-place mutation of an object-valued cell and of a primitive cell.      *)
(***************************************************************************)
NextMutate ==
  \/ \E f \in Mutators : Mutate("o", f)
  \/ \E f \in Mutators : Mutate("x", f)
  \/ \E m \in {"mO"} : Read(m)
  \/ \E e \in {"eO", "eX"} : CreateEffect(e)
  \/ \E e \in {"eO"} : Destroy(e)
  \/ Flush

SpecMutate == Init /\ [][NextMutate]_vars

(***************************************************************************)
(* Untracked reads: mU and eU read y, and eV reads mU, without tracking.    *)
(***************************************************************************)
NextUntracked ==
  \/ \E v \in Values : Set("x", v)
  \/ \E v \in Values : Set("y", v)
  \/ \E m \in {"mU"} : Read(m)
  \/ \E e \in {"eU", "eV"} : CreateEffect(e)
  \/ Flush

SpecUntracked == Init /\ [][NextUntracked]_vars

(***************************************************************************)
(* Two memos that read each other while the cell x is 0: mA reads x and,    *)
(* while x is 0, mZ; mZ reads mA.                                           *)
(***************************************************************************)
NextCircular ==
  \/ \E v \in Values : Set("x", v)
  \/ \E f \in Updaters : Update("x", f)
  \/ \E m \in {"mA", "mZ"} : Read(m)
  \/ \E m \in {"mA", "mZ"} : ReadUntracked(m)

SpecCircular == Init /\ [][NextCircular]_vars

(***************************************************************************)
(* A memo whose compute throws while the cell x is 0.                       *)
(***************************************************************************)
NextThrowing ==
  \/ \E v \in Values : Set("x", v)
  \/ \E f \in Updaters : Update("x", f)
  \/ \E f \in Mutators : Mutate("x", f)
  \/ Read("mE")
  \/ ReadUntracked("mE")

SpecThrowing == Init /\ [][NextThrowing]_vars

(***************************************************************************)
(* A memo over two cells, mS = 2 * x + y, read directly and by an effect.   *)
(***************************************************************************)
NextBatch ==
  \/ \E v \in Values : Set("x", v)
  \/ \E v \in Values : Set("y", v)
  \/ \E f \in Mutators : Mutate("x", f)
  \/ Read("mS")
  \/ CreateEffect("eS")
  \/ Flush

SpecBatch == Init /\ [][NextBatch]_vars

(***************************************************************************)
(* Disposal: eX has no cleanup function, eC returns one; destroy() may be   *)
(* called any number of times.                                              *)
(***************************************************************************)
NextDestroy ==
  \/ \E v \in Values : Set("x", v)
  \/ \E e \in {"eX", "eC"} : CreateEffect(e)
  \/ \E e \in {"eX", "eC"} : Destroy(e)
  \/ Flush

SpecDestroy == Init /\ [][NextDestroy]_vars

(***************************************************************************)
(* Reset of all effects: eX has no cleanup function, eC returns one.        *)
(***************************************************************************)
NextReset ==
  \/ \E v \in Values : Set("x", v)
  \/ \E e \in {"eX", "eC"} : CreateEffect(e)
  \/ ResetEffects
  \/ Flush

SpecReset == Init /\ [][NextReset]_vars

(***************************************************************************)
(* Read-only views: eX reads the cell x, eR reads x through its view.       *)
(***************************************************************************)
NextReadonly ==
  \/ \E v \in Values : Set("x", v)
  \/ \E f \in Updaters : Update("x", f)
  \/ \E f \in Mutators : Mutate("x", f)
  \/ \E c \in {"x", "y"} : Readonly(c)
  \/ \E k \in 1..2 : ReadView(k)
  \/ Read("x")
  \/ \E e \in {"eX", "eR"} : CreateEffect(e)
  \/ Flush

SpecReadonly == Init /\ [][NextReadonly]_vars

(***************************************************************************)
(* effect.initial: eX and eC read the cell x, eY reads the cell y.          *)
(***************************************************************************)
NextInitial ==
  \/ \E v \in Values : Set("x", v)
  \/ \E e \in {"eX", "eY", "eC"} : CreateInitial(e)
  \/ Flush

SpecInitial == Init /\ [][NextInitial]_vars

(***************************************************************************)
(* Dynamic dependencies: the memo mK and the effect eK read the cell y only *)
(* while the cell x is 0.                                                   *)
(***************************************************************************)
NextDynamic ==
  \/ \E c \in {"x", "y"}, v \in Values : Set(c, v)
  \/ Read("mK")
  \/ CreateEffect("eK")
  \/ Flush

SpecDynamic == Init /\ [][NextDynamic]_vars


(***************************************************************************)
(* Reads during a notification: eY reads the cell y, mB reads the cell x.   *)
(***************************************************************************)
NextReentrant ==
  \/ \E c \in {"x", "y"}, v \in Values : Set(c, v)
  \/ Read("mB")
  \/ CreateEffect("eY")
  \/ Flush
  \/ \E c \in {NoNode, "eY"}, n \in {"x", "y", "mB"} : ReentrantRead(c, n)

SpecReentrant == Init /\ [][NextReentrant]_vars


(***************************************************************************)
(* A throwing callback: eT throws while x is not 0; eX and eY do not throw. *)
(***************************************************************************)
NextEffectThrows ==
  \/ \E c \in {"x", "y"}, v \in Values : Set(c, v)
  \/ \E e \in {"eT", "eX", "eY"} : CreateEffect(e)
  \/ Flush

SpecEffectThrows == Init /\ [][NextEffectThrows]_vars


(***************************************************************************)
(* Memo equality: mG doubles x and is given (a, b) => a >= b as equality,   *)
(* mC is the parity of x under the default equality.                        *)
(***************************************************************************)
NextEqual ==
  \/ \E v \in Values : Set("x", v)
  \/ \E f \in Updaters : Update("x", f)
  \/ \E m \in {"mG", "mC"} : Read(m)

SpecEqual == Init /\ [][NextEqual]_vars


(***************************************************************************)
(* The graph at work: the conditional consumers mK and eK, whose edge from  *)
(* y comes and goes.                                                        *)
(***************************************************************************)
NextGraph ==
  \/ \E c \in {"x", "y"}, v \in Values : Set(c, v)
  \/ Read("mK")
  \/ CreateEffect("eK")
  \/ Destroy("eK")
  \/ Flush

SpecGraph == Init /\ [][NextGraph]_vars


(***************************************************************************)
(* Notification: x is read by mK and mC, y by eY and, while x is 0, by mK,  *)
(* and mC by eP.                                                            *)
(***************************************************************************)
NextNotify ==
  \/ \E c \in {"x", "y"}, v \in Values : Set(c, v)
  \/ Read("mK")
  \/ \E e \in {"eY", "eP"} : CreateEffect(e)
  \/ Flush

SpecNotify == Init /\ [][NextNotify]_vars


(***************************************************************************)
(* The active consumer: eN reads y untracked, then mE (a recomputation      *)
(* inside the run), then x; eT and mE throw.                                *)
(***************************************************************************)
NextSlot ==
  \/ \E v \in Values : Set("x", v)
  \/ ReadUntracked("mE")
  \/ \E e \in {"eN", "eT"} : CreateEffect(e)
  \/ Flush

SpecSlot == Init /\ [][NextSlot]_vars


(***************************************************************************)
(* Cleanup functions: eL returns a new cleanup closure on each run that     *)
(* read x # 0 and nothing otherwise, eC always returns the same function,   *)
(* eX never returns one.                                                    *)
(***************************************************************************)
NextCleanup ==
  \/ \E v \in Values : Set("x", v)
  \/ \E e \in {"eL", "eC", "eX"} : CreateEffect(e)
  \/ Flush

SpecCleanup == Init /\ [][NextCleanup]_vars


(***************************************************************************)
(* Insertions during a drain: eW copies x into y, which eY reads, and eM    *)
(* creates the effect eX.                                                   *)
(***************************************************************************)
NextDrain ==
  \/ \E c \in {"x", "y"}, v \in Values : Set(c, v)
  \/ \E e \in {"eY", "eW", "eM"} : CreateEffect(e)
  \/ Flush

SpecDrain == Init /\ [][NextDrain]_vars


(***************************************************************************)
(* Weak edges: mC reads x; eH reads mC through a reference that the program *)
(* clears, then y.  The program lets go of mC and of eH once it is          *)
(* destroyed, and never touches a node it let go of.                        *)
(***************************************************************************)
NextWeak ==
  \/ \E c \in {"x", "y"}, v \in Values : Set(c, v)
  \/ CreateEffect("eH")
  \/ "eH" \in activeEffects /\ Destroy("eH")
  \/ \E n \in {"mC", "eH"} : Reclaim(n)
  \/ Flush

SpecWeak == Init /\ [][NextWeak]_vars


(***************************************************************************)
(* The public operations together: reads of a cell and of a memo, the three *)
(* writes, an effect that writes y in its callback (eW) and one that reads  *)
(* y, returns a cleanup function and is destroyed (eZ).                     *)
(***************************************************************************)
NextPublic ==
  \/ \E v \in Values : Set("x", v)
  \/ Update("x", "increment")
  \/ Mutate("x", "touch")
  \/ \E n \in {"x", "mC"} : Read(n)
  \/ ReadUntracked("y")
  \/ \E e \in {"eW", "eZ"} : CreateEffect(e)
  \/ Destroy("eZ")
  \/ Flush

SpecPublic == Init /\ [][NextPublic]_vars


(***************************************************************************)
(* The microtask that schedule() arranged with Promise.resolve().then is    *)
(* run by the host once the current turn is over: an outstanding flush is   *)
(* eventually taken.  Flush is the one action that takes a microtask, and   *)
(* it is enabled whenever one is outstanding.                               *)
(***************************************************************************)
MicrotaskRuns == microtasks > 0 /\ microtasks' = microtasks - 1

SpecEffectThrowsFair == SpecEffectThrows /\ WF_microtasks(MicrotaskRuns)


(***************************************************************************)
(* Consumers of a throwing memo: mE throws while x is 0; mF reads mE; the   *)
(* callback of eG reads mE inside try / catch.                              *)
(***************************************************************************)
NextErrored ==
  \/ \E v \in Values : Set("x", v)
  \/ \E m \in {"mE", "mF"} : Read(m)
  \/ CreateEffect("eG")
  \/ Flush

SpecErrored == Init /\ [][NextErrored]_vars


(***************************************************************************)
(* Disposal: eQ returns cleanup functions, destroys itself in its callback  *)
(* while x is 1 and throws while x is 2; eL returns cleanup functions.      *)
(* destroy() is called at most once per effect, and resetEffects() never.   *)
(***************************************************************************)
NextDisposal ==
  \/ \E v \in Values : Set("x", v)
  \/ \E e \in {"eQ", "eL"} : CreateEffect(e)
  \/ \E e \in {"eQ", "eL"} : e \in activeEffects /\ Destroy(e)
  \/ Flush

SpecDisposal == Init /\ [][NextDisposal]_vars


(***************************************************************************)
(* The scheduled set under every operation on effects: eX reads x; eQ also  *)
(* destroys itself in its callback while x is 1 and throws while x is 2.    *)
(***************************************************************************)
NextScheduled ==
  \/ \E v \in Values : Set("x", v)
  \/ \E e \in {"eX", "eQ"} : CreateEffect(e)
  \/ \E e \in {"eX", "eQ"} : Destroy(e)
  \/ ResetEffects
  \/ Flush

SpecScheduled == Init /\ [][NextScheduled]_vars


(***************************************************************************)
(* A memo whose equality function throws: mV returns x and is given an      *)
(* equality function that throws when the new value is 2.                   *)
(***************************************************************************)
NextComparator ==
  \/ \E v \in Values : Set("x", v)
  \/ \E f \in Updaters : Update("x", f)
  \/ \E m \in {"mV", "mC"} : Read(m)
  \/ ReadUntracked("mV")

SpecComparator == Init /\ [][NextComparator]_vars


(***************************************************************************)
(* Vocabulary of the properties.                                            *)
(***************************************************************************)
RECURSIVE IdealIn(_, _)
RECURSIVE IdealBody(_, _, _)

\* What the compute function of n yields on the cell values val.
IdealIn(val, n) == IF n \in Cells THEN val[n] ELSE IdealBody(val, n, <<>>)

IdealBody(val, n, vals) ==
  LET st == Plan(n, vals)
  IN IF st.do = "return" THEN st.v
     ELSE IdealBody(val, n, Append(vals, IdealIn(val, st.node)))

Count(tr, ev, n) ==
  Cardinality({i \in 1..Len(tr) : tr[i].ev = ev /\ tr[i].node = n})

RunOrder(tr) ==
  LET runs == SelectSeq(tr, LAMBDA x : x.ev = "run")
  IN [i \in 1..Len(runs) |-> runs[i].node]

HasEdge(p, c) == MapHas(consumers[p], c) /\ MapHas(producers[c], p)

LiveEdge(p, c) ==
  /\ HasEdge(p, c)
  /\ dependency[<<p, c>>].consumerVersion = trackingVersion[c]

\* The consumer c has not observed the current value version of the producer p.
Behind(p, c) ==
  /\ LiveEdge(p, c)
  /\ dependency[<<p, c>>].producerVersion # valueVersion[p]

Queued(e) == MapHas(executionQueue, e)

(***************************************************************************)
(* C1  Glitch-freedom on the diamond x -> mB, mC -> mD -> eD: every         *)
(* computation of mD reads an mB and an mC that both derive from the        *)
(* current x, every read of mD and every run of eD yields the value of the  *)
(* current x, and a flush runs the callback of eD exactly once when x       *)
(* differs from what eD saw, which is always arranged, and at most once     *)
(* otherwise.                                                               *)
(***************************************************************************)
GlitchFreeStep ==
  /\ \A i \in 1..Len(trace') :
       /\ (trace'[i].ev = "computed" /\ trace'[i].node = "mD") =>
            /\ trace'[i].a = IdealIn(value', "mB")
            /\ trace'[i].b = IdealIn(value', "mC")
       /\ (trace'[i].ev = "log" /\ trace'[i].node = "eD") =>
            trace'[i].a = IdealIn(value', "mD")
  /\ (op'.kind = "read" /\ op'.node = "mD") =>
       /\ op'.exc = NoExc
       /\ op'.ret = IdealIn(value', "mD")
  /\ ("eD" \in activeEffects' /\ seen'["eD"][1] # IdealIn(value', "mD")) =>
       /\ MapHas(executionQueue', "eD")
       /\ microtasks' = 1
  /\ op'.kind = "flush" =>
       /\ Count(trace', "callback", "eD") <= 1
       /\ ("eD" \in activeEffects /\ seen["eD"][1] # IdealIn(value, "mD")) =>
            Count(trace', "callback", "eD") = 1
  /\ op'.kind # "flush" => Count(trace', "callback", "eD") = 0

GlitchFree == [][GlitchFreeStep]_vars

WitnessGlitchFree ==
  /\ op.kind = "flush"
  /\ valueVersion["x"] >= 1
  /\ trackingVersion["eD"] >= 2
  /\ Count(trace, "callback", "eD") = 1
  /\ Count(trace, "computed", "mD") = 1
  /\ Count(trace, "computed", "mB") = 1
  /\ Count(trace, "computed", "mC") = 1

(***************************************************************************)
(* C2  A read, tracked or untracked, of a memo with default equality whose  *)
(* compute does not throw and reads through tracked reads returns what the  *)
(* compute function yields on the current values of the cells, also when    *)
(* the memo reads other memos.                                              *)
(***************************************************************************)
MemoReadIsCurrent ==
  (op.kind \in {"read", "untracked"} /\ op.node \in Memos) =>
    /\ op.exc = NoExc
    /\ op.ret = IdealIn(value, op.node)

WitnessMemoReadIsCurrent ==
  /\ op.kind \in {"read", "untracked"}
  /\ op.node = "mP"
  /\ op.ret = 6
  /\ Writes = 2
  /\ trackingVersion["mP"] >= 2
  /\ Count(trace, "computed", "mP") = 1

(***************************************************************************)
(* C3  Coalescing: an effect callback runs only in a flush and at most once *)
(* per flush, however many times the effect was notified by writes to the   *)
(* cells it read; when such a write is pending the effect is queued, a      *)
(* flush is arranged, and that flush runs the callback exactly once.        *)
(***************************************************************************)
CoalescingStep ==
  /\ \A e \in Effects :
       /\ op'.kind # "flush" => Count(trace', "callback", e) = 0
       /\ op'.kind = "flush" => Count(trace', "callback", e) <= 1
       /\ (op'.kind = "flush" /\ e \in activeEffects
             /\ \E c \in Cells : Behind(c, e)) =>
            Count(trace', "callback", e) = 1
       /\ (e \in activeEffects' /\ \E c \in Cells : Behind(c, e)') =>
            /\ MapHas(executionQueue', e)
            /\ microtasks' = 1

Coalescing == [][CoalescingStep]_vars

WitnessCoalescing ==
  /\ op.kind = "flush"
  /\ trackingVersion["eX"] >= 2
  /\ valueVersion["x"] = 2
  /\ Count(trace, "callback", "eX") = 1
  /\ \E i \in 1..Len(trace) :
       trace[i].ev = "run" /\ trace[i].node = "eX" /\ trace[i].a = 2

(***************************************************************************)
(* C4  A flush runs the effects in the order in which they were inserted    *)
(* into the scheduled set, which is the order in which they were first      *)
(* marked dirty since they last ran.                                        *)
(***************************************************************************)
FlushOrderStep ==
  op'.kind = "flush" =>
    /\ RunOrder(trace') = SelectSeq(marked, LAMBDA e : e \in activeEffects)
    /\ RunOrder(trace') = executionQueue

FlushOrder == [][FlushOrderStep]_vars

WitnessFlushOrder ==
  /\ op.kind = "flush"
  /\ RunOrder(trace) = <<"eY", "eX">>
  /\ trackingVersion["eX"] = 2
  /\ trackingVersion["eY"] = 2

(***************************************************************************)
(* C5  Effect callbacks run only inside a flush: effect(cb) does not call   *)
(* cb but makes the effect active, dirty and queued with a flush arranged,  *)
(* the next flush runs it whatever its dependencies, and no operation other *)
(* than the flush calls an effect callback.                                 *)
(***************************************************************************)
EffectDeferredStep ==
  /\ op'.kind # "flush" =>
       \A i \in 1..Len(trace') : trace'[i].ev \notin {"callback", "run", "log"}
  /\ op'.kind = "effect" =>
       /\ op'.node \in activeEffects'
       /\ dirty'[op'.node]
       /\ MapHas(executionQueue', op'.node)
       /\ microtasks' = 1
       /\ trackingVersion'[op'.node] = 0
       /\ seen'[op'.node] = NeverSeen
  /\ op'.kind = "flush" =>
       \A e \in Effects :
         (Queued(e) /\ trackingVersion[e] = 0) =>
           /\ Count(trace', "callback", e) = 1
           /\ trackingVersion'[e] = 1

EffectDeferred == [][EffectDeferredStep]_vars

WitnessEffectDeferred ==
  /\ op.kind = "flush"
  /\ Writes >= 1
  /\ trackingVersion["eY"] = 1
  /\ Count(trace, "callback", "eY") = 1
  /\ trackingVersion["eX"] = 0
  /\ "eX" \notin constructed


(***************************************************************************)
(* C6  Equality short-circuit: while the value that the memo mC would       *)
(* recompute is equal, by its equality function, to the value it caches, a  *)
(* consumer that has seen that cached value does not re-execute: the        *)
(* compute of the downstream memo mP is not run by a read, and the callback *)
(* of the downstream effect eP is not run by a flush that runs eP.          *)
(***************************************************************************)
IsValue(v) == v \notin {UNSET, COMPUTING, ERRORED}

EqualityShortCircuitStep ==
  (/\ value'["x"] = value["x"]
   /\ IsValue(value["mC"])
   /\ equal("mC", value["mC"], IdealIn(value, "mC"))) =>
    /\ valueVersion'["mC"] = valueVersion["mC"]
    /\ value'["mC"] = value["mC"]
    /\ (LiveEdge("mC", "mP") /\ ~Behind("mC", "mP") /\ IsValue(value["mP"])) =>
         /\ Count(trace', "compute", "mP") = 0
         /\ value'["mP"] = value["mP"]
    /\ (LiveEdge("mC", "eP") /\ ~Behind("mC", "eP")) =>
         Count(trace', "callback", "eP") = 0

EqualityShortCircuit == [][EqualityShortCircuitStep]_vars

WitnessEqualityShortCircuit ==
  /\ op.kind = "flush"
  /\ valueVersion["x"] >= 1
  /\ Count(trace, "run", "eP") = 1
  /\ Count(trace, "compute", "mC") = 1
  /\ Count(trace, "subscribe", "mC") = 0
  /\ Count(trace, "callback", "eP") = 0
  /\ trackingVersion["eP"] = 1

(***************************************************************************)
(* C7  set(v) with equal(current, v) is a no-op: the value, the versions,   *)
(* the stale and dirty flags, the edges and the scheduled set are left      *)
(* unchanged, and neither a consumer hook nor the change callback is        *)
(* invoked.                                                                 *)
(***************************************************************************)
program == <<value, error, stale, trackingVersion, valueVersion, producers,
             consumers, dependency, activeConsumer, notifying, dirty,
             cleanupFn, constructed, activeEffects, executionQueue,
             pendingQueue, microtasks, seen, notified, marked,
             readonlySignal, views>>

SetEqualStep ==
  (op'.kind = "set" /\ equal(op'.node, value[op'.node], op'.arg)) =>
    /\ UNCHANGED program
    /\ trace' = <<>>

SetEqualIsNoOp == [][SetEqualStep]_vars

WitnessSetEqualIsNoOp ==
  /\ op.kind = "set"
  /\ op.node = "x"
  /\ op.arg = value["x"]
  /\ valueVersion["x"] >= 1
  /\ LiveEdge("x", "eX")
  /\ LiveEdge("x", "mK")
  /\ ~dirty["eX"]
  /\ ~stale["mK"]
  /\ trace = <<>>

(***************************************************************************)
(* C8  set(v) with equal(current, v) false replaces the value, increments   *)
(* the value version by one, invokes the hook of every consumer with a live *)
(* edge (leaving the memos stale and the effects dirty), and then invokes   *)
(* the change callback once, last, with (new, old); update(f) does what     *)
(* set(f(current)) does.                                                    *)
(***************************************************************************)
HookBefore(tr, k) ==
  \E i \in 1..(Len(tr) - 1) : tr[i] = Event("onDependencyChange", k, 0, 0)

PostSet(c, v) ==
  IF equal(c, value[c], v)
    THEN UNCHANGED program /\ trace' = <<>>
    ELSE
      /\ value' = [value EXCEPT ![c] = v]
      /\ valueVersion' = [valueVersion EXCEPT ![c] = @ + 1]
      /\ Len(trace') >= 1
      /\ trace'[Len(trace')] = Event("subscribe", c, v, value[c])
      /\ Count(trace', "subscribe", c) = 1
      /\ \A k \in Nodes :
           /\ LiveEdge(c, k) =>
                /\ HookBefore(trace', k)
                /\ k \in Memos => stale'[k]
                /\ k \in Effects => dirty'[k]
           /\ (HasEdge(c, k) /\ ~LiveEdge(c, k)) =>
                /\ Count(trace', "onDependencyChange", k) = 0
                /\ k \in Memos => stale'[k] = stale[k]

SetChangedStep ==
  /\ op'.kind = "set" => PostSet(op'.node, op'.arg)
  /\ op'.kind = "update" =>
       PostSet(op'.node, ApplyUpdater(op'.fn, value[op'.node]))

SetChanged == [][SetChangedStep]_vars

WitnessSetChanged ==
  /\ op.kind = "set"
  /\ op.node = "x"
  /\ Len(trace) = 3
  /\ Count(trace, "onDependencyChange", "eX") = 1
  /\ Count(trace, "onDependencyChange", "mK") = 1
  /\ trace[3].ev = "subscribe"
  /\ stale["mK"]
  /\ dirty["eX"]

(***************************************************************************)
(* C9  mutate(f) always increments the value version and notifies, whatever *)
(* the equality function says and whether or not f changed the value: every *)
(* memo with a live edge becomes stale, every active effect with a live     *)
(* edge becomes dirty and queued with a flush arranged, and the next flush  *)
(* runs the callback of that effect.                                        *)
(***************************************************************************)
MutateStep ==
  /\ op'.kind = "mutate" =>
       LET c == op'.node
       IN /\ valueVersion' = [valueVersion EXCEPT ![c] = @ + 1]
          /\ value' = [value EXCEPT ![c] = ApplyMutator(c, op'.fn, @)]
          /\ Count(trace', "subscribe", c) = 1
          /\ \A k \in Nodes :
               LiveEdge(c, k) =>
                 /\ Count(trace', "onDependencyChange", k) = 1
                 /\ k \in Memos => stale'[k]
                 /\ k \in activeEffects =>
                      /\ dirty'[k]
                      /\ MapHas(executionQueue', k)
                      /\ microtasks' = 1
  /\ op'.kind = "flush" =>
       \A e \in activeEffects :
         (\E c \in Cells : Behind(c, e)) => Count(trace', "callback", e) = 1

MutateAlwaysNotifies == [][MutateStep]_vars

WitnessMutateAlwaysNotifies ==
  /\ op.kind = "flush"
  /\ value["o"] = InitialValue("o")
  /\ valueVersion["o"] = 1
  /\ trackingVersion["eO"] = 2
  /\ Count(trace, "callback", "eO") = 1
  /\ seen["eO"][1] = InitialValue("o")
  /\ trackingVersion["mO"] >= 1

(***************************************************************************)
(* C10  Untracked isolation: a consumer that reads a producer only through  *)
(* the untracked path has no edge to it, and a write to that producer       *)
(* neither marks the consumer stale or dirty nor makes a later read or      *)
(* flush run its compute function or callback.                              *)
(***************************************************************************)
NoEdge(p, c) == ~MapHas(producers[c], p) /\ ~MapHas(consumers[p], c)

UntrackedIsolationStep ==
  /\ NoEdge("y", "mU")' /\ NoEdge("y", "eU")' /\ NoEdge("mU", "eV")'
  /\ (op'.kind = "set" /\ op'.node = "y") =>
       /\ stale' = stale
       /\ dirty' = dirty
       /\ executionQueue' = executionQueue
       /\ microtasks' = microtasks
       /\ \A i \in 1..Len(trace') : trace'[i].ev = "subscribe"
  /\ (op'.kind = "set" /\ op'.node = "x") =>
       /\ dirty' = dirty
       /\ executionQueue' = executionQueue
  /\ op'.kind = "flush" =>
       \A e \in {"eU", "eV"} :
         trackingVersion[e] > 0 => Count(trace', "callback", e) = 0
  /\ (op'.kind = "read" /\ op'.node = "mU" /\ IsValue(value["mU"])
        /\ ~Behind("x", "mU")) =>
       /\ Count(trace', "compute", "mU") = 0
       /\ op'.ret = value["mU"]

UntrackedIsolation == [][UntrackedIsolationStep]_vars

WitnessUntrackedIsolation ==
  /\ op.kind = "read"
  /\ op.node = "mU"
  /\ valueVersion["y"] >= 1
  /\ op.ret # IdealIn(value, "mU")
  /\ seen["eU"] # NeverSeen
  /\ seen["eU"][1] # value["y"]
  /\ seen["eV"] # NeverSeen
  /\ ~dirty["eU"]
  /\ ~dirty["eV"]
  /\ executionQueue = <<>>

(***************************************************************************)
(* C11  Cycle detection and recovery on mA <-> mZ: while the two computes   *)
(* read each other (x = 0, never written) a read of either memo throws the  *)
(* cycle error, and once the compute of mA no longer reads mZ (x # 0) a     *)
(* read of either memo succeeds with its value, 0 for mA and 1 for mZ.      *)
(***************************************************************************)
CycleDetected ==
  (op.kind \in {"read", "untracked"} /\ op.node \in {"mA", "mZ"}
     /\ valueVersion["x"] = 0) =>
    op.exc = CycleError

CycleRecovers ==
  (op.kind \in {"read", "untracked"} /\ op.node \in {"mA", "mZ"}
     /\ value["x"] # 0) =>
    /\ op.exc = NoExc
    /\ op.ret = IF op.node = "mA" THEN 0 ELSE 1

CycleDetectionAndRecovery == CycleDetected /\ CycleRecovers

\* mA has recovered and a read of mZ still throws the cycle error.
WitnessCycleNotRecovered ==
  /\ op.kind = "read"
  /\ op.node = "mZ"
  /\ value["x"] # 0
  /\ value["mA"] = 0
  /\ ~stale["mA"]
  /\ op.exc = CycleError
  /\ value["mZ"] = ERRORED
  /\ ~stale["mZ"]
  /\ MapSize(producers["mZ"]) = 0

(***************************************************************************)
(* C12  Cached error persistence on mE, whose compute throws while x is 0:  *)
(* a read of mE while its cached error is current with x re-throws that     *)
(* error without running compute; a read after x changed to a non-zero      *)
(* value runs compute once and returns x; and a read while the cached value *)
(* is current with x returns it without running compute.                    *)
(***************************************************************************)
CachedErrorStep ==
  (op'.kind \in {"read", "untracked"} /\ op'.node = "mE") =>
    /\ (value["mE"] = ERRORED /\ LiveEdge("x", "mE") /\ ~Behind("x", "mE")) =>
         /\ op'.exc = error["mE"]
         /\ op'.exc = ZeroError
         /\ Count(trace', "compute", "mE") = 0
         /\ error' = error
         /\ value' = value
    /\ (value["mE"] = ERRORED /\ Behind("x", "mE") /\ value["x"] # 0) =>
         /\ op'.exc = NoExc
         /\ op'.ret = value["x"]
         /\ Count(trace', "compute", "mE") = 1
         /\ value'["mE"] = value["x"]
    /\ (IsValue(value["mE"]) /\ ~Behind("x", "mE")) =>
         /\ op'.exc = NoExc
         /\ op'.ret = value["mE"]
         /\ Count(trace', "compute", "mE") = 0
    /\ value["x"] = 0 => op'.exc = ZeroError

CachedError == [][CachedErrorStep]_vars

\* The error was cached, x was written once, and this read recomputed.
WitnessCachedError ==
  /\ op.kind = "read"
  /\ op.node = "mE"
  /\ op.exc = NoExc
  /\ Writes = 1
  /\ trackingVersion["mE"] = 2
  /\ error["mE"] = ZeroError
  /\ Count(trace, "compute", "mE") = 1

(***************************************************************************)
(* C13  Memo laziness: a write to a cell runs no compute function and       *)
(* leaves the cached values alone (a memo with a live edge is only marked   *)
(* stale); compute runs at most once per memo in a read or in a flush, only *)
(* when the memo is unset or stale, and leaves the memo not stale, so the   *)
(* writes made since the last computation cost one computation.             *)
(***************************************************************************)
MemoLazyStep ==
  \A m \in Memos :
    /\ op'.kind \in {"set", "update", "mutate"} =>
         /\ Count(trace', "compute", m) = 0
         /\ value'[m] = value[m]
         /\ \A c \in Cells :
              (c = op'.node /\ LiveEdge(c, m) /\ valueVersion'[c] # valueVersion[c])
                => stale'[m]
    /\ Count(trace', "compute", m) <= 1
    /\ Count(trace', "compute", m) = 1 =>
         /\ op'.kind \in {"read", "untracked", "flush"}
         /\ stale[m]
         /\ ~stale'[m]
    /\ (op'.kind = "read" /\ op'.node = m /\ IsValue(value[m])
          /\ \E c \in Cells : Behind(c, m)) =>
         Count(trace', "compute", m) = 1

MemoLazy == [][MemoLazyStep]_vars

\* mS was computed when x and y were 0, both cells were written since, and
\* mS is still only marked stale.
WitnessMemoLazy ==
  /\ op.kind = "set"
  /\ value["mS"] = 0
  /\ stale["mS"]
  /\ Behind("x", "mS")
  /\ Behind("y", "mS")
  /\ value["x"] # 0
  /\ value["y"] # 0
  /\ \A i \in 1..Len(trace) : trace[i].ev # "compute"

(***************************************************************************)
(* C14  Memo caching on x -> mC -> mP: a read of a memo runs its compute at *)
(* most once, and only if the memo was unset or stale; while no producer    *)
(* that the memo read in its last computation has changed, a read runs no   *)
(* compute and returns the cached value; and a read leaves the memo in that *)
(* condition, so the reads that follow it return the same value.            *)
(***************************************************************************)
ProducersUnchanged(m) ==
  \A p \in Nodes :
    LiveEdge(p, m) =>
      /\ ~Behind(p, m)
      /\ p \in Memos =>
           /\ IsValue(value[p])
           /\ equal(p, value[p], IdealIn(value, p))

MemoCachingStep ==
  \A m \in {"mC", "mP"} :
    (op'.kind = "read" /\ op'.node = m) =>
      /\ Count(trace', "compute", m) <= 1
      /\ Count(trace', "compute", m) = 1 => (value[m] = UNSET \/ stale[m])
      /\ (IsValue(value[m]) /\ ProducersUnchanged(m)) =>
           /\ Count(trace', "compute", m) = 0
           /\ op'.exc = NoExc
           /\ op'.ret = value[m]
           /\ value'[m] = value[m]
           /\ valueVersion'[m] = valueVersion[m]
      /\ IsValue(value'[m])
      /\ ~stale'[m]
      /\ ProducersUnchanged(m)'

MemoCaching == [][MemoCachingStep]_vars

\* A read of mP, after a write to x, that ran no compute function at all.
WitnessMemoCaching ==
  /\ op.kind = "read"
  /\ op.node = "mP"
  /\ op.ret = value["mP"]
  /\ valueVersion["x"] >= 1
  /\ ~Behind("x", "mC")
  /\ trace = <<>>

(***************************************************************************)
(* C15  After destroy() of an effect has returned, whether the effect was   *)
(* idle or queued, the effect is neither active nor queued, it stays so     *)
(* whatever is written, and no flush runs its callback.                     *)
(***************************************************************************)
Destroyed(e) == e \in constructed /\ e \notin activeEffects

DestroyedNeverRunsStep ==
  /\ op'.kind = "destroy" =>
       /\ op'.exc = NoExc
       /\ op'.node \in constructed'
       /\ op'.node \notin activeEffects'
  /\ \A e \in Effects :
       /\ Destroyed(e) =>
            /\ Count(trace', "callback", e) = 0
            /\ Count(trace', "run", e) = 0
            /\ Destroyed(e)'
       /\ Destroyed(e)' => ~Queued(e)'

DestroyedNeverRuns == [][DestroyedNeverRunsStep]_vars

\* eX ran, was queued again by a write, and was destroyed while queued; the
\* flush that was arranged for it has run.
WitnessDestroyedNeverRuns ==
  /\ op.kind = "flush"
  /\ Destroyed("eX")
  /\ trackingVersion["eX"] = 1
  /\ dirty["eX"]
  /\ Behind("x", "eX")
  /\ Count(trace, "callback", "eX") = 0

(***************************************************************************)
(* C16  destroy() is idempotent: a call to destroy() of an effect that was  *)
(* destroyed before raises nothing, leaves the active set, the scheduled    *)
(* set and all flags unchanged, and invokes neither the cleanup function    *)
(* that the callback returned nor the callback.                             *)
(***************************************************************************)
DestroyIdempotentStep ==
  (op'.kind = "destroy" /\ Destroyed(op'.node)) =>
    /\ op'.exc = NoExc
    /\ UNCHANGED <<activeEffects, executionQueue, pendingQueue, microtasks,
                   dirty, stale>>
    /\ Count(trace', "callback", op'.node) = 0
    /\ \A i \in 1..Len(trace') :
         ~(trace'[i].ev = "cleanup" /\ trace'[i].node = op'.node
             /\ trace'[i].a = 1)

DestroyIdempotent == [][DestroyIdempotentStep]_vars

(***************************************************************************)
(* C17  resetEffects() empties the active set and the scheduled set and     *)
(* invokes nothing, in particular no cleanup function; an effect that was   *)
(* created before a reset is never active or queued again and no flush runs *)
(* its callback, whatever is written.                                       *)
(***************************************************************************)
ResetStep ==
  /\ op'.kind = "resetEffects" =>
       /\ op'.exc = NoExc
       /\ activeEffects' = {}
       /\ executionQueue' = <<>>
       /\ trace' = <<>>
       /\ cleanupFn' = cleanupFn
  /\ \A e \in Effects :
       (e \in constructed /\ e \notin activeEffects) =>
         /\ Count(trace', "callback", e) = 0
         /\ Count(trace', "cleanup", e) = 0
         /\ e \notin activeEffects'
         /\ ~Queued(e)'

ResetStopsEffects == [][ResetStep]_vars

\* eC ran once and was reset while queued by a write, with its cleanup
\* function pending; the flush arranged before the reset has run.
WitnessResetStopsEffects ==
  /\ op.kind = "flush"
  /\ "eC" \in constructed
  /\ activeEffects = {}
  /\ trackingVersion["eC"] = 1
  /\ cleanupFn["eC"] = UserCleanup
  /\ dirty["eC"]
  /\ Behind("x", "eC")
  /\ trace = <<>>

(***************************************************************************)
(* C18  readonly() returns the same view on every call; a view has no set,  *)
(* update or mutate; a read through the view returns the value a read of    *)
(* the cell returns and records the dependency on the cell itself, so that  *)
(* an effect that read only the view is notified by exactly the writes that *)
(* notify an effect that read the cell.                                     *)
(***************************************************************************)
HasRun(e) == e \in activeEffects /\ trackingVersion[e] >= 1

ReadonlyStep ==
  /\ op'.kind = "readonly" =>
       /\ op'.exc = NoExc
       /\ op'.ret = readonlySignal'[op'.node]
       /\ op'.ret \in 1..Len(views')
       /\ views'[op'.ret].fn = op'.node
       /\ readonlySignal[op'.node] # 0 =>
            /\ op'.ret = readonlySignal[op'.node]
            /\ views' = views
  /\ \A k \in 1..Len(views') :
       /\ views'[k].type = "readonly"
       /\ views'[k].api \cap {"set", "update", "mutate"} = {}
       /\ readonlySignal'[views'[k].fn] = k
  /\ op'.kind \in {"view", "read"} =>
       /\ op'.exc = NoExc
       /\ op'.ret = value'[op'.node]
       /\ program' = program
  /\ Count(trace', "callback", "eR") > 0 =>
       /\ producers'["eR"] = <<"x">>
       /\ MapHas(consumers'["x"], "eR")
       /\ LiveEdge("x", "eR")'
       /\ ~Behind("x", "eR")'
       /\ seen'["eR"][1] = value'["x"]
  /\ (op'.kind \in {"set", "update", "mutate"} /\ HasRun("eX")
        /\ HasRun("eR")) =>
       /\ Count(trace', "onDependencyChange", "eR")
            = Count(trace', "onDependencyChange", "eX")
       /\ Count(trace', "onDependencyChange", "eR")
            = IF op'.kind = "mutate" \/ value'["x"] # value["x"]
                THEN 1 ELSE 0
       /\ dirty["eR"] = dirty["eX"] => dirty'["eR"] = dirty'["eX"]

ReadonlyEquivalence == [][ReadonlyStep]_vars

\* A write to x notifies both the effect that read x and the effect that
\* read the view of x.
WitnessReadonlyEquivalence ==
  /\ op.kind = "set"
  /\ HasRun("eX") /\ HasRun("eR")
  /\ readonlySignal["x"] # 0
  /\ Count(trace, "onDependencyChange", "eR") = 1
  /\ Count(trace, "onDependencyChange", "eX") = 1
  /\ dirty["eR"] /\ dirty["eX"]

(***************************************************************************)
(* C19  effect.initial(cb) runs cb exactly once at once, and the flush that *)
(* directly follows the call, before any cell is written, does not run cb   *)
(* again: cb has then run once in total.                                    *)
(***************************************************************************)
InitialStep ==
  /\ op'.kind = "initial" =>
       /\ op'.exc = NoExc
       /\ Count(trace', "callback", op'.node) = 1
  /\ (op.kind = "initial" /\ op'.kind = "flush") =>
       Count(trace', "callback", op.node) = 0

InitialRunsOnce == [][InitialStep]_vars

\* No cell was ever written, and the flush ran the callback that
\* effect.initial had already run.
WitnessInitialRunsTwice ==
  /\ op.kind = "flush"
  /\ Writes = 0
  /\ constructed = {"eX"}
  /\ seen["eX"] = <<0, 0>>
  /\ Count(trace, "callback", "eX") = 1

(***************************************************************************)
(* C20  Dynamic dependencies.  mK and eK read y only while x is 0.  After   *)
(* an execution that did not read y the edge from y is not live; a write to *)
(* y then leaves the stale and dirty flags and the scheduled set as they    *)
(* are and invokes no hook of the consumer; and the compute function or     *)
(* callback runs only on the first execution or when a producer with a live *)
(* edge has a new value version.                                            *)
(***************************************************************************)
Executed(tr, c) ==
  Count(tr, IF c \in Effects THEN "callback" ELSE "computed", c) > 0

DynamicStep ==
  \A c \in {"mK", "eK"} :
    /\ Executed(trace', c) =>
         /\ LiveEdge("x", c)'
         /\ LiveEdge("y", c)' <=> value'["x"] = 0
         /\ trackingVersion[c] = 0 \/ Behind("x", c) \/ Behind("y", c)
    /\ (op'.kind = "set" /\ op'.node = "y" /\ ~LiveEdge("y", c)) =>
         /\ Count(trace', "onDependencyChange", c) = 0
         /\ c \in Memos => stale'[c] = stale[c]
         /\ c \in Effects => dirty'[c] = dirty[c]
         /\ c \in Effects => (Queued(c)' <=> Queued(c))
         /\ ~LiveEdge("y", c)'
    /\ (op'.kind \in {"read", "flush"} /\ trackingVersion[c] > 0
          /\ ~Behind("x", c) /\ ~LiveEdge("y", c)) =>
         ~Executed(trace', c)

DynamicDependencies == [][DynamicStep]_vars

\* mK was read after y was written, while its last execution, with x # 0,
\* had not read y: the read ran no compute function.
WitnessDynamicDependencies ==
  /\ op.kind = "read"
  /\ op.node = "mK"
  /\ trackingVersion["mK"] = 2
  /\ value["x"] # 0
  /\ valueVersion["y"] = 1
  /\ ~LiveEdge("y", "mK")
  /\ trace = <<>>

(***************************************************************************)
(* C21  A read of a producer made while a notification is in progress fails *)
(* with the reentrant-read error, which reaches the caller, and the read    *)
(* neither creates nor refreshes a dependency edge.                         *)
(***************************************************************************)
ReentrantReadStep ==
  op'.kind = "reentrant" =>
    /\ op'.exc = ReentrantError
    /\ producers' = producers
    /\ consumers' = consumers
    /\ dependency' = dependency
    /\ ~notifying'

ReentrantReadFails == [][ReentrantReadStep]_vars

\* eY has an edge from y that is behind, and read y again during a
\* notification: the edge was not refreshed.
WitnessReentrantReadFails ==
  /\ op.kind = "reentrant"
  /\ op.node = "y"
  /\ op.fn = "eY"
  /\ op.exc = ReentrantError
  /\ Behind("y", "eY")

(***************************************************************************)
(* C22  When the callback of an effect throws during a flush, the flush     *)
(* ends with that exception, and the effects that were queued after the     *)
(* throwing one are not run in that drain.                                  *)
(***************************************************************************)
Threw(tr, e) ==
  /\ Count(tr, "callback", e) > 0
  /\ Count(tr, "log", e) = 0

ThrowingCallbackStep ==
  (op'.kind = "flush" /\ Threw(trace', "eT")) =>
    /\ op'.exc = EffectError
    /\ \A i, j \in 1..Len(executionQueue) :
         (i < j /\ executionQueue[i] = "eT") =>
           /\ Count(trace', "run", executionQueue[j]) = 0
           /\ MapHas(executionQueue', executionQueue[j])
    /\ \A i, j \in 1..Len(executionQueue) :
         (i < j /\ executionQueue[j] = "eT") =>
           Count(trace', "run", executionQueue[i]) = 1

ThrowingCallbackAbortsFlush == [][ThrowingCallbackStep]_vars

\* eX ran, eT threw, eY was queued behind eT and did not run.
WitnessThrowingCallbackAbortsFlush ==
  /\ op.kind = "flush"
  /\ op.exc = EffectError
  /\ RunOrder(trace) = <<"eX", "eT">>
  /\ executionQueue = <<"eY">>
  /\ dirty["eY"]

(***************************************************************************)
(* C23  When a memo recomputes without error, its cached value was a real   *)
(* value and its equality function reports the new result equal to it, the  *)
(* new result is discarded: the memo keeps the old value, the read returns  *)
(* it, and the value version is not incremented.                            *)
(***************************************************************************)
MemoKeepsEqualStep ==
  \A m \in {"mG", "mC"} :
    (/\ Count(trace', "computed", m) > 0
     /\ IsValue(value[m])
     /\ equal(m, value[m], IdealIn(value', m))) =>
      /\ value'[m] = value[m]
      /\ valueVersion'[m] = valueVersion[m]
      /\ ~stale'[m]
      /\ op'.exc = NoExc
      /\ op'.ret = value[m]
      /\ Count(trace', "subscribe", m) = 0

MemoKeepsEqual == [][MemoKeepsEqualStep]_vars

\* mG recomputed to 2 while it held 4, and kept 4.
WitnessMemoKeepsEqual ==
  /\ op.kind = "read"
  /\ op.node = "mG"
  /\ Count(trace, "computed", "mG") = 1
  /\ value["x"] = 1
  /\ op.ret = 4
  /\ value["mG"] = 4
  /\ valueVersion["mG"] = 2

(***************************************************************************)
(* C24  The change callback of a memo is invoked exactly once by a          *)
(* recomputation that succeeds and commits a value different from the       *)
(* previous one, and is not invoked otherwise: not when the new value is    *)
(* kept equal, not by a read that does not recompute, not when compute      *)
(* throws.                                                                  *)
(***************************************************************************)
MemoChangeCallbackStep ==
  Count(trace', "subscribe", "mE")
    = IF Count(trace', "computed", "mE") = 1 /\ value'["mE"] # value["mE"]
        THEN 1 ELSE 0

MemoChangeCallback == [][MemoChangeCallbackStep]_vars

\* compute threw, and the change callback was invoked with the errored
\* sentinel as the new value.
WitnessCallbackOnThrow ==
  /\ op.kind = "read"
  /\ op.node = "mE"
  /\ op.exc = ZeroError
  /\ Count(trace, "compute", "mE") = 1
  /\ Count(trace, "computed", "mE") = 0
  /\ \E i \in 1..Len(trace) :
       /\ trace[i].ev = "subscribe"
       /\ trace[i].node = "mE"
       /\ trace[i].a = ERRORED

(***************************************************************************)
(* C25  When a memo commits a new value, its change callback receives the   *)
(* value just committed as new and the value that was cached before the     *)
(* recomputation started as old; old is never the computing sentinel.       *)
(***************************************************************************)
MemoCallbackArgumentsStep ==
  \A i \in 1..Len(trace') :
    (trace'[i].ev = "subscribe" /\ trace'[i].node \in {"mG", "mC"}) =>
      /\ trace'[i].a = value'[trace'[i].node]
      /\ trace'[i].b = value[trace'[i].node]
      /\ trace'[i].b # COMPUTING

MemoCallbackArguments == [][MemoCallbackArgumentsStep]_vars

\* mG went from 0 to 2 and its change callback received (2, computing).
WitnessCallbackOldIsComputing ==
  /\ op.kind = "read"
  /\ op.node = "mG"
  /\ valueVersion["mG"] = 2
  /\ trace[Len(trace)] = Event("subscribe", "mG", 2, COMPUTING)

(***************************************************************************)
(* C26  Adjacency symmetry: between operations a producer is a key of a     *)
(* consumer's producers map exactly when the consumer is a key of the       *)
(* producer's consumers map, each key occurs once, and the dependency       *)
(* records are exactly one per such pair.                                   *)
(***************************************************************************)
Keys(m) == {m[i] : i \in 1..Len(m)}

AdjacencySymmetry ==
  /\ \A c \in Nodes : \A p \in Keys(producers[c]) : MapHas(consumers[p], c)
  /\ \A p \in Nodes : \A c \in Keys(consumers[p]) : MapHas(producers[c], p)
  /\ \A n \in Nodes :
       /\ Cardinality(Keys(producers[n])) = Len(producers[n])
       /\ Cardinality(Keys(consumers[n])) = Len(consumers[n])
       /\ Tomb \notin Keys(producers[n]) \cup Keys(consumers[n])
  /\ DOMAIN dependency
       = UNION {{<<p, c>> : p \in Keys(producers[c])} : c \in Nodes}

\* The edge from y to mK was recorded by the first computation, left behind
\* by the second, and pruned from both maps by the write to y.
WitnessAdjacencySymmetry ==
  /\ op.kind = "set"
  /\ op.node = "y"
  /\ trackingVersion["mK"] = 2
  /\ producers["mK"] = <<"x">>
  /\ ~MapHas(consumers["y"], "mK")
  /\ <<"y", "mK">> \notin DOMAIN dependency

(***************************************************************************)
(* C27  notifyConsumers, run by a write to the cell p or by the hook of a   *)
(* memo that was not stale, invokes the dependency-change hook once for     *)
(* every consumer with a live edge, and for a consumer whose edge is stale  *)
(* it invokes no hook and removes the edge from both adjacency maps.        *)
(***************************************************************************)
Hooks(tr, c) == Count(tr, "onDependencyChange", c)

NotifyConsumersStep ==
  /\ \A p \in {"x", "y"} : \A c \in Keys(consumers[p]) :
       valueVersion'[p] # valueVersion[p] =>
         IF LiveEdge(p, c)
           THEN /\ Hooks(trace', c) = 1
                /\ MapHas(consumers'[p], c)
                /\ MapHas(producers'[c], p)
           ELSE /\ Hooks(trace', c) = 0
                /\ ~MapHas(consumers'[p], c)
                /\ ~MapHas(producers'[c], p)
  /\ (Hooks(trace', "mC") = 1 /\ ~stale["mC"]) =>
       Hooks(trace', "eP") = IF LiveEdge("mC", "eP") THEN 1 ELSE 0
  /\ (Hooks(trace', "mC") = 0 \/ stale["mC"]) => Hooks(trace', "eP") = 0
  /\ \A c \in {"mK", "eY", "mC"} :
       Hooks(trace', c) > 0 =>
         \E p \in {"x", "y"} :
           valueVersion'[p] # valueVersion[p] /\ LiveEdge(p, c)

NotifyConsumersLiveOnly == [][NotifyConsumersStep]_vars

\* A write to y found the edge to mK stale and the edge to eY live: it
\* pruned the first and invoked the hook of eY.
WitnessNotifyConsumersLiveOnly ==
  /\ op.kind = "set"
  /\ op.node = "y"
  /\ trackingVersion["mK"] = 2
  /\ producers["mK"] = <<"x">>
  /\ consumers["y"] = <<"eY">>
  /\ Hooks(trace, "eY") = 1
  /\ Hooks(trace, "mK") = 0

(***************************************************************************)
(* C28  The active-consumer slot is restored by a memo recomputation, an    *)
(* effect run and an untracked read, whether they return or throw: it is    *)
(* empty after every operation, every read made by a body is recorded       *)
(* under the consumer that made it and under no other, a tracked read that  *)
(* follows a nested recomputation or an untracked read is recorded, and a   *)
(* read outside any consumer records no edge.                               *)
(***************************************************************************)
TrackedReads(c) ==
  CASE c = "eN" -> {"mE", "x"}
    [] c \in {"mE", "eT"} -> {"x"}
    [] OTHER -> {}

Finished(tr, c) ==
  Count(tr, IF c \in Effects THEN "log" ELSE "computed", c) > 0

SlotRestoredStep ==
  /\ activeConsumer' = NoNode
  /\ \A c \in Nodes : Keys(producers'[c]) \subseteq TrackedReads(c)
  /\ \A c \in {"mE", "eN", "eT"} :
       Finished(trace', c) =>
         {p \in Nodes : LiveEdge(p, c)'} = TrackedReads(c)
  /\ op'.kind \in {"read", "untracked"} =>
       consumers'[op'.node] = consumers[op'.node]

SlotRestored == [][SlotRestoredStep]_vars

\* eT threw in a flush in which eN had recorded its reads of mE and x after
\* the untracked read of y and the recomputation of mE.
WitnessSlotRestored ==
  /\ op.kind = "flush"
  /\ op.exc = EffectError
  /\ Finished(trace, "eN")
  /\ Finished(trace, "mE")
  /\ producers["eN"] = <<"mE", "x">>
  /\ producers["mE"] = <<"x">>
  /\ consumers["y"] = <<>>
  /\ activeConsumer = NoNode

(***************************************************************************)
(* C29  When an effect executes again, the cleanup function that its        *)
(* previous execution returned (a no-op if it returned none) is invoked     *)
(* once, before the callback, and the cleanup function the new execution    *)
(* returns (a no-op if none) is kept for the next time.                     *)
(***************************************************************************)
Returned(e, x) ==
  CASE e = "eL" -> IF x = 0 THEN NOOP_CLEANUP ELSE CleanupClosure(x)
    [] e = "eC" -> UserCleanup
    [] OTHER -> NOOP_CLEANUP

IndexOf(tr, ev, n) ==
  CHOOSE i \in 1..Len(tr) : tr[i].ev = ev /\ tr[i].node = n

CleanupStep ==
  \A e \in {"eL", "eC", "eX"} :
    Count(trace', "callback", e) > 0 =>
      /\ Count(trace', "callback", e) = 1
      /\ Count(trace', "cleanup", e) = 1
      /\ IndexOf(trace', "cleanup", e) < IndexOf(trace', "callback", e)
      /\ trackingVersion[e] > 0 =>
           /\ cleanupFn[e] = Returned(e, seen[e][1])
           /\ trace'[IndexOf(trace', "cleanup", e)]
                = Event("cleanup", e,
                        IF Returned(e, seen[e][1]) = NOOP_CLEANUP THEN 0 ELSE 1,
                        Captured(Returned(e, seen[e][1])))
      /\ cleanupFn'[e] = Returned(e, value'["x"])

CleanupBeforeCallback == [][CleanupStep]_vars

\* eL had read 1, ran again reading 0: the cleanup that captured 1 was
\* invoked, and the no-op replaces it.
WitnessCleanupBeforeCallback ==
  /\ op.kind = "flush"
  /\ trackingVersion["eL"] = 2
  /\ Count(trace, "callback", "eL") = 1
  /\ trace[IndexOf(trace, "cleanup", "eL")] = Event("cleanup", "eL", 1, 1)
  /\ value["x"] = 0
  /\ cleanupFn["eL"] = NOOP_CLEANUP

(***************************************************************************)
(* C30  An effect that becomes dirty while a flush is draining, because a   *)
(* running effect wrote one of its dependencies or because it was created   *)
(* during the drain, is executed within that drain: when the flush is over  *)
(* the scheduled set is empty, no flush is pending, and no active effect is *)
(* dirty or behind a producer it read.                                      *)
(***************************************************************************)
SameDrainStep ==
  (op'.kind = "flush" /\ op'.exc = NoExc) =>
    /\ executionQueue' = <<>>
    /\ ~pendingQueue'
    /\ microtasks' = 0
    /\ \A e \in activeEffects' :
         /\ ~dirty'[e]
         /\ trackingVersion'[e] > 0
         /\ \A p \in Keys(producers'[e]) : ~Behind(p, e)'
    /\ \A e \in constructed' \ constructed :
         Count(trace', "callback", e) = 1
    /\ (Count(trace', "callback", "eW") = 1 /\ value'["y"] # value["y"]
          /\ "eY" \in activeEffects /\ trackingVersion["eY"] > 0) =>
         \E i, j \in 1..Len(trace') :
           /\ i < j
           /\ trace'[i].ev = "callback" /\ trace'[i].node = "eW"
           /\ trace'[j].ev = "callback" /\ trace'[j].node = "eY"

SameDrain == [][SameDrainStep]_vars

\* eY ran, eW wrote y, eY ran again, and eM created eX, which ran: all in
\* one flush.
WitnessSameDrain ==
  /\ op.kind = "flush"
  /\ Count(trace, "callback", "eY") = 2
  /\ Count(trace, "callback", "eW") = 1
  /\ Count(trace, "callback", "eM") = 1
  /\ Count(trace, "callback", "eX") = 1
  /\ executionQueue = <<>>
  /\ value["y"] = value["x"]

(***************************************************************************)
(* C31  At most one deferred flush is outstanding at any time.  A flush is  *)
(* arranged only by an operation that starts with no flush pending (the    *)
(* first enqueue after the previous flush finished); an operation that      *)
(* enqueues while a flush is pending arranges none, and neither does the    *)
(* drain itself for the effects that are enqueued while it runs.            *)
(***************************************************************************)
OneFlushStep ==
  /\ microtasks' \in {0, 1}
  /\ microtasks' > microtasks => ~pendingQueue /\ pendingQueue'
  /\ pendingQueue /\ op'.kind # "flush" => microtasks' = microtasks
  /\ op'.kind = "flush" => microtasks' = 0

OneFlush == [][OneFlushStep]_vars

\* Two effects are queued behind the one flush that is outstanding.
WitnessOneFlush ==
  /\ microtasks = 1
  /\ pendingQueue
  /\ Len(executionQueue) >= 2

(***************************************************************************)
(* C32  Edges are safe after an end of them is reclaimed.  No operation     *)
(* invokes a hook, a compute function or a callback of a reclaimed node,    *)
(* changes a field of it, or fails because of it.  A write that notifies    *)
(* the consumers of a cell leaves no edge from the cell to a reclaimed      *)
(* consumer, and an effect that polls its producers during a flush drops    *)
(* the edge to a reclaimed producer that it meets first.                    *)
(***************************************************************************)
WeakEdgesStep ==
  /\ reclaimed # {} => op'.exc = NoExc
  /\ \A n \in reclaimed :
       /\ \A k \in 1..Len(trace') : trace'[k].node # n
       /\ producers'[n] = producers[n]
       /\ consumers'[n] = consumers[n]
       /\ trackingVersion'[n] = trackingVersion[n]
       /\ valueVersion'[n] = valueVersion[n]
       /\ n \in Memos => stale'[n] = stale[n] /\ value'[n] = value[n]
       /\ n \in Effects => dirty'[n] = dirty[n] /\ notified'[n] = notified[n]
       /\ op'.kind = "set" /\ valueVersion'[op'.node] # valueVersion[op'.node]
            => ~MapHas(consumers'[op'.node], n)
       /\ \A e \in activeEffects :
            /\ op'.kind = "flush"
            /\ Count(trace', "run", e) > 0
            /\ trackingVersion[e] # 0
            /\ Len(producers[e]) > 0
            /\ producers[e][1] = n
            => ~MapHas(producers'[e], n)

WeakEdges == [][WeakEdgesStep]_vars

\* mC was reclaimed while x and eH had an edge with it; the write of x
\* dropped the one, and the poll of eH in the last flush dropped the other.
WitnessWeakEdges ==
  /\ op.kind = "flush"
  /\ "mC" \in reclaimed
  /\ Count(trace, "run", "eH") = 1
  /\ MapHas(producers["mC"], "x") /\ ~MapHas(consumers["x"], "mC")
  /\ MapHas(consumers["mC"], "eH") /\ ~MapHas(producers["eH"], "mC")

(***************************************************************************)
(* C33  User code never runs while notifying is set: no compute function,   *)
(* callback, cleanup function or change callback is entered during a        *)
(* notification, the flag is clear between operations, no public operation  *)
(* raises the read-during-notification error, and a read of a cell never    *)
(* throws.  (An equality function runs at the entry of set and right after  *)
(* a compute function, where the flag is as at those entries.)              *)
(***************************************************************************)
NoReadDuringNotification ==
  /\ ~notifying
  /\ ~intruded
  /\ op.exc # ReentrantError
  /\ op.kind \in {"read", "untracked"} /\ op.node \in Cells => op.exc = NoExc

\* A flush in which the callback of eW wrote y, which notified eZ, whose
\* cleanup function and callback then ran in the same flush.
WitnessNoReadDuringNotification ==
  /\ op.kind = "flush"
  /\ op.exc = NoExc
  /\ Count(trace, "subscribe", "y") = 1
  /\ Count(trace, "callback", "eZ") = 1
  /\ IndexOf(trace, "subscribe", "y") < IndexOf(trace, "callback", "eZ")
  /\ trace[IndexOf(trace, "cleanup", "eZ")].a = 1

(***************************************************************************)
(* C34  After a flush that a throwing callback aborted (the pending flush   *)
(* has run and did not finish), every effect that is in the scheduled set,  *)
(* left there by the aborted flush or queued by a later write, is           *)
(* eventually run by a flush.                                               *)
(***************************************************************************)
Aborted == pendingQueue /\ microtasks = 0

SchedulerLiveAfterFailure ==
  \A e \in {"eX", "eY", "eT"} :
    (Aborted /\ Queued(e)) ~> (op.kind = "flush" /\ Count(trace, "run", e) > 0)

\* The callback of eT threw, eY is left in the scheduled set, and no flush
\* is outstanding although pendingQueue is still set.
WitnessSchedulerStuck ==
  /\ op.kind = "flush"
  /\ op.exc = EffectError
  /\ Aborted
  /\ Queued("eY")
  /\ dirty["eY"]

Errored(val) == val = ERRORED

ErroredIsChangeStep ==
  /\ ( /\ op'.kind = "flush"
       /\ "eG" \in activeEffects
       /\ trackingVersion["eG"] > 0
       /\ LiveEdge("mE", "eG")
       /\ Errored(seen["eG"][1]) # Errored(value'["mE"]) )
     => /\ Count(trace', "callback", "eG") = 1
        /\ seen'["eG"][1] = value'["mE"]
  /\ ( /\ op'.kind = "read"
       /\ op'.node = "mF"
       /\ value["mF"] # UNSET
       /\ Errored(value["mF"]) # Errored(value'["mE"]) )
     => /\ Count(trace', "compute", "mF") = 1
        /\ Errored(value'["mF"]) = Errored(value'["mE"])
        /\ Errored(value'["mF"]) = (op'.exc = ZeroError)

ErroredIsChange == [][ErroredIsChangeStep]_vars

\* The last flush ran the callback of eG again because mE stopped throwing:
\* eG had seen the error before (x was 0 when it ran first).
WitnessErroredIsChange ==
  /\ op.kind = "flush"
  /\ trackingVersion["eG"] = 2
  /\ Count(trace, "callback", "eG") = 1
  /\ Count(trace, "compute", "mE") = 1
  /\ value["mE"] = 1
  /\ seen["eG"][1] = 1
  /\ valueVersion["x"] = 1

(***************************************************************************)
(* C37  When destroy() is called at most once per effect and resetEffects() *)
(* never, no cleanup function that a callback returned is invoked more than *)
(* once, also when a later execution of the callback throws or destroys the *)
(* effect.                                                                  *)
(***************************************************************************)
CleanupOnce == \A e \in Effects : cleanupCalls[e] <= 1

\* The flush in which the callback of eQ destroyed eQ: the cleanup function
\* of the previous execution ran before the callback and again in destroy().
WitnessCleanupTwice ==
  /\ op.kind = "flush"
  /\ Count(trace, "callback", "eQ") = 1
  /\ Count(trace, "cleanup", "eQ") = 2
  /\ cleanupCalls["eQ"] = 2
  /\ "eQ" \notin activeEffects

(***************************************************************************)
(* C38  The scheduled set is a subset of the active set after every         *)
(* operation, and a flush runs only effects that were active when it        *)
(* started or that were created during it.                                  *)
(***************************************************************************)
ScheduledSubsetStep ==
  /\ \A i \in 1..Len(executionQueue') : executionQueue'[i] \in activeEffects'
  /\ op'.kind = "flush" =>
       \A k \in 1..Len(trace') :
         trace'[k].ev = "run" =>
           trace'[k].node \in activeEffects \cup (constructed' \ constructed)

ScheduledSubset == [][ScheduledSubsetStep]_vars

\* eX was destroyed while it was dirty and queued; the flush that was
\* arranged for it is still outstanding.
WitnessScheduledSubset ==
  /\ op.kind = "destroy"
  /\ op.node = "eX"
  /\ dirty["eX"]
  /\ "eX" \notin activeEffects
  /\ ~Queued("eX")
  /\ microtasks = 1

(***************************************************************************)
(* C39  Between operations, an active effect is dirty if and only if it is  *)
(* in the scheduled set.                                                    *)
(***************************************************************************)
DirtyIffQueued == \A e \in activeEffects : dirty[e] <=> Queued(e)

\* The callback of eQ threw: eQ is active, clean and not queued, while eX,
\* queued behind it, is still dirty and queued.
WitnessDirtyIffQueued ==
  /\ op.kind = "flush"
  /\ op.exc = EffectError
  /\ "eQ" \in activeEffects /\ ~dirty["eQ"] /\ ~Queued("eQ")
  /\ "eX" \in activeEffects /\ dirty["eX"] /\ Queued("eX")

(***************************************************************************)
(* C40  Between operations no memo is in the computing state; after a read  *)
(* of a memo, whether it returned or threw, that memo holds a value or an   *)
(* error and is not stale; and a read that returns never returns one of the *)
(* sentinels.                                                               *)
(***************************************************************************)
NeverLeftComputing ==
  /\ \A m \in Memos : value[m] # COMPUTING
  /\ (op.kind \in {"read", "untracked"} /\ op.node \in Memos) =>
       /\ value[op.node] \notin {UNSET, COMPUTING}
       /\ ~stale[op.node]
       /\ op.exc = NoExc => op.ret \notin {UNSET, COMPUTING, ERRORED}

\* A read of mV returned the computing sentinel as its value: the equality
\* function threw during an earlier read and left mV computing and not
\* stale.
WitnessLeftComputing ==
  /\ op.kind = "read"
  /\ op.node = "mV"
  /\ op.exc = NoExc
  /\ op.ret = COMPUTING
  /\ value["mV"] = COMPUTING
  /\ ~stale["mV"]

=============================================================================
